---- MODULE Spec2Model ----
(***************************************************************************)
(* A model of Arc-it: the theme store (ThemeProvider), the content store   *)
(* (ContentProvider and content.loadContent) and the smart content loader  *)
(* (SmartContentLoader with its NetworkMonitor and SecurityManager).       *)
(*                                                                         *)
(* JavaScript runs one task at a time: a handler runs to its next await    *)
(* without interleaving, so every action below is one such run, and the    *)
(* await points are the only places where other actions interleave.        *)
(*                                                                         *)
(* Strings the code takes apart (preset names, user agents) are sequences  *)
(* of pieces, so that replace() and includes() are computed, not assumed.  *)
(***************************************************************************)
EXTENDS Integers, Sequences, FiniteSets, Bags, TLC

VARIABLES
    \* ---- theme store (ThemeProvider) ----
    theme,          \* useState theme: [colors, fonts, presets]
    isLoading,      \* useState isLoading
    currentPreset,  \* useState currentPreset (Null when none)
    isDarkMode,     \* useState isDarkMode
    themeLoads,     \* bag of the initialPreset captured by each load effect
                    \* whose loadTheme() is still awaited
    nThemeLoads,    \* number of load effects run so far
    themeFile,      \* environment: the document theme.json holds
    themeData,      \* history: the document the last completed load returned
    themeOp,        \* history: the last theme operation and its arguments
    themeInfo,      \* what useDynamicThemeDetection's getDynamicThemeInfo last returned
    lastIndex,      \* lastIndex of each regular expression of SECURITY_CONFIG.BLOCKED_PATTERNS
    validations,    \* history: the validator calls made, with their results
    \* ---- smart content loader (SmartContentLoader) ----
    cache,          \* SmartContentLoader.cache: key -> [data, timestamp]
    requestHistory, \* SecurityManager.requestHistory: clientId -> [count, lastRequest]
    calls,          \* the loadContent calls in flight or just settled
    nCalls,         \* number of loadContent calls made so far
    now,            \* Date.now()
    ticks,          \* number of times the clock advanced
    env,            \* the loader's config and navigator (fixed)
    writes,         \* history: per key, the setSmartCache calls in order
    gateLog,        \* history: the outcomes of the security checks run on their own
    \* ---- content store (ContentProvider, content.loadContent) ----
    content,        \* useState content
    loading,        \* useState loading
    error,          \* useState error (Null when none)
    language,       \* useState language
    currentContentStyle, \* useState currentContentStyle
    contentCache,   \* the module's contentCache: path -> [data, timestamp]
    contentProps,   \* the provider's props (fixed)
    loads,          \* the loadContentData calls awaiting loadContent
    nLoads,         \* number of loadContentData calls made so far
    lastLoaded,     \* history: what the last settled loadContent returned
    contentOp,      \* history: the last content operation and its argument
    contentInfo     \* what useDynamicContentDetection's getDynamicContentInfo last returned

themeVars == <<theme, isLoading, currentPreset, isDarkMode, themeLoads,
               nThemeLoads, themeFile, themeData, themeOp,
               themeInfo, lastIndex, validations>>

loaderVars == <<cache, requestHistory, calls, nCalls, now, ticks, env, writes, gateLog>>

contentVars == <<content, loading, error, language, currentContentStyle,
                 contentCache, contentProps, loads, nLoads, lastLoaded, contentOp,
                 contentInfo>>

vars == <<themeVars, loaderVars, contentVars>>

-----------------------------------------------------------------------------
(* Bounds of the model *)

\* Load effects run per provider (mount plus prop changes).
MaxThemeLoads == 2

\* loadContent calls made on one loader.
MaxCalls == 2

\* Times the clock advances.
MaxTicks == 1

\* Requests whose security checks are run on one SecurityManager.
MaxRequests == 11

\* loadContentData calls made on one provider (the mount's and reloads).
MaxLoads == 3

-----------------------------------------------------------------------------
(* Small helpers standing for JavaScript object operations *)

\* { ...f, ...g }: g's keys override f's, f's other keys are kept.
Spread(f, g) ==
    [k \in (DOMAIN f) \cup (DOMAIN g) |-> IF k \in DOMAIN g THEN g[k] ELSE f[k]]

\* An object with no own keys.
EmptyObj == [k \in {} |-> "undefined"]

\* null / undefined for a preset name.
Null == << >>

-----------------------------------------------------------------------------
(* Theme documents *)

\* The suffix piece of a preset name, '-light'.
LightSuffix == "-light"

\* Preset names a theme.json of the model may define.
PresetNames == { <<"space">>, <<"space", LightSuffix>>, <<"green">> }

\* A key every plain object inherits from Object.prototype: presets['constructor']
\* is a (truthy) function although no theme.json defines such a preset.
ProtoName == <<"constructor">>

\* Names a caller may pass to setPreset / initialPreset.
CallerNames == PresetNames \cup { ProtoName }

ColorKeys == {"primary", "accent"}
FontKeys == {"body"}

\* The value a preset gives to a key is tagged with the preset, the base
\* document's with "base", so that the origin of a resolved value is visible.
PresetValue(name) ==
    IF name = <<"space">> THEN "space"
    ELSE IF name = <<"space", LightSuffix>> THEN "space-light"
    ELSE IF name = <<"green", LightSuffix>> THEN "green-light"
    ELSE "green"

\* A preset overriding the colour keys cs and the font keys fs.
MkPreset(name, cs, fs) ==
    [colors |-> [k \in cs |-> PresetValue(name)],
     fonts  |-> [k \in fs |-> PresetValue(name)]]

\* The shapes one preset may have: which colours and fonts it overrides
\* (fonts is optional in ThemePreset: no fonts behaves as fonts = {}).
PresetShapes ==
    { <<{"primary"}, {}>>, <<{"accent"}, {"body"}>>, <<{"primary", "accent"}, {}>> }

BaseColors == [k \in {"primary", "background"} |-> "base"]
BaseFonts == [k \in FontKeys |-> "base"]

\* The members of the sequence order that are in ns, in the order of order.
KeysIn(order, ns) == SelectSeq(order, LAMBDA n : n \in ns)

\* Every order in which a document may list the keys ns.
KeyOrders(ns) ==
    { q \in [1..Cardinality(ns) -> ns] :
        \A i, j \in 1..Cardinality(ns) : i # j => q[i] # q[j] }

\* The order in which the documents of ThemeDocs list their presets.
DocKeyOrder == << <<"space">>, <<"space", LightSuffix>>, <<"green">> >>

\* The theme.json documents of the model: the base colours and fonts plus a
\* presets object with any subset of PresetNames, each preset of any shape,
\* or no presets field at all (hasPresets tells the empty object from the
\* missing field). keys is the order of the presets in the document, which
\* is the order Object.keys(presets) yields.
ThemeDocs ==
    { [colors |-> BaseColors, fonts |-> BaseFonts,
       presets |-> [n \in DOMAIN sh |-> MkPreset(n, sh[n][1], sh[n][2])],
       keys |-> KeysIn(DocKeyOrder, DOMAIN sh),
       hasPresets |-> TRUE] :
        sh \in UNION { [ns -> PresetShapes] : ns \in SUBSET PresetNames } }
    \cup { [colors |-> BaseColors, fonts |-> BaseFonts, presets |-> EmptyObj,
            keys |-> << >>, hasPresets |-> FALSE] }

\* Preset names of the documents the theme switcher is exercised with.
SwitcherNames == PresetNames \cup { <<"green", LightSuffix>> }

\* The documents the theme switcher is exercised with: any subset of
\* SwitcherNames as presets, listed in any order, every preset overriding the
\* primary colour.
SwitcherDocs ==
    { [colors |-> BaseColors, fonts |-> BaseFonts,
       presets |-> [n \in { q[i] : i \in DOMAIN q } |-> MkPreset(n, {"primary"}, {})],
       keys |-> q,
       hasPresets |-> TRUE] :
        q \in UNION { KeyOrders(ns) : ns \in SUBSET SwitcherNames } }

\* The built-in document: the initial useState value and loadTheme's fallback.
\* It has no presets field; presets?.[x] is then undefined for every x.
FallbackTheme ==
    [colors |-> [k \in {"primary", "background", "foreground"} |-> "builtin"],
     fonts |-> [k \in {"body", "heading"} |-> "builtin"],
     presets |-> EmptyObj,
     keys |-> << >>,
     hasPresets |-> FALSE]

\* How the fetch of the theme document may end: a parsed document, a
\* rejected fetch, a status that is not ok, a body that is not JSON.
ThemeFetchResults == {"ok", "networkError", "notOk", "badJson"}

\* A promise settled with the value v, and a rejected promise.
Resolved(v) == [rejected |-> FALSE, value |-> v]
Rejected == [rejected |-> TRUE, value |-> EmptyObj]

\* Mutant: the catch block rethrows.
loadThemeRethrows(file, r) ==
    IF r = "ok" THEN Resolved(file) ELSE Rejected

\* loadTheme(path) with the document file at path, the fetch ending as r:
\* every failure is caught and answered with the fallback document.
loadTheme(file, r) ==
    IF r = "ok" THEN Resolved(file) ELSE Resolved(FallbackTheme)

\* presets?.[name] as a truth value: an own key, or a key inherited from
\* Object.prototype.
HasPreset(t, name) ==
    \/ name \in DOMAIN t.presets
    \/ t.hasPresets /\ name = ProtoName

\* presets[name] for a name HasPreset accepts: the inherited value has neither
\* colors nor fonts.
PresetOf(t, name) ==
    IF name \in DOMAIN t.presets THEN t.presets[name]
    ELSE [colors |-> EmptyObj, fonts |-> EmptyObj]

\* Mutant: the result holds the preset's own colours and fonts only.
applyPresetDropsTheme(t, presetName) ==
    IF ~HasPreset(t, presetName) THEN t
    ELSE [t EXCEPT !.colors = PresetOf(t, presetName).colors,
                   !.fonts = PresetOf(t, presetName).fonts]

\* Mutant: the spreads are swapped, the current values win over the preset's.
applyPresetThemeWins(t, presetName) ==
    IF ~HasPreset(t, presetName) THEN t
    ELSE [t EXCEPT !.colors = Spread(PresetOf(t, presetName).colors, t.colors),
                   !.fonts = Spread(PresetOf(t, presetName).fonts, t.fonts)]

\* applyPreset(theme, presetName)
applyPreset(t, presetName) ==
    IF ~HasPreset(t, presetName) THEN t
    ELSE [t EXCEPT !.colors = Spread(t.colors, PresetOf(t, presetName).colors),
                   !.fonts = Spread(t.fonts, PresetOf(t, presetName).fonts)]

-----------------------------------------------------------------------------
(* Security utilities: the validators over the shared blocked patterns *)

\* The most validator calls followed.
MaxValidations == 3

\* Strings are sequences of pieces. BLOCKED_PATTERNS, in order: for each
\* regular expression the pieces it matches. Every one of them carries the
\* flags gi: test() starts at its lastIndex and moves it.
BLOCKED_PATTERNS ==
    << { "<script>x</script>" },
       { "javascript:", "url(javascript:", "@import url(javascript:" },
       { "data:text/html" },
       { "vbscript:" },
       { "onclick=" },
       { "expression(" },
       { "url(javascript:", "@import url(javascript:" },
       { "@import url(javascript:" } >>

\* The inputs of the model: values with a blocked pattern at their start or
\* further in, values in an allowed format, a value that is neither.
ScriptUrl == <<"javascript:", "alert(1)">>
FontExpression == <<"font-family:", "expression(", "alert(1))">>
CssUrl == <<"url(javascript:", "alert(1))">>
HexColor == <<"#fff">>
QuotedFont == <<"'", "Inter", "'", ",", "sans-serif">>
Pixels == <<"16px">>
Inherit == <<"inherit">>
Behavior == <<"behavior:", "url(xss.htc)">>

ValidatorInputs ==
    { ScriptUrl, FontExpression, CssUrl, HexColor, QuotedFont, Pixels, Inherit, Behavior }

\* ALLOWED_COLOR_FORMATS, ALLOWED_FONT_VALUES, ALLOWED_NUMERIC_VALUES: anchored
\* expressions without the g flag, which hold no state.
ALLOWED_COLOR_FORMATS(value) == value \in { HexColor, Inherit }
ALLOWED_FONT_VALUES(value) ==
    /\ value # << >>
    /\ \A i \in DOMAIN value : value[i] \in { "Inter", "sans-serif", "'", ",", "inherit" }
ALLOWED_NUMERIC_VALUES(value) == value \in { Pixels, Inherit }

\* The characters the sanitizing replace() removes, as pieces: < and >, the
\* double quote ("dq"), the single quote and the backtick ("bt").
DangerousPieces == { "<", ">", "dq", "'", "bt" }

\* value.replace(/[<>...]/g, '') over the dangerous characters
sanitize(value) == SelectSeq(value, LAMBDA c : c \notin DangerousPieces)

\* The regular expressions as the module creates them.
FreshLastIndex == [p \in DOMAIN BLOCKED_PATTERNS |-> 0]

\* The end of the first match of pattern p in value after position li, 0
\* when there is none.
matchEnd(p, value, li) ==
    LET hits == { j \in DOMAIN value : j > li /\ value[j] \in BLOCKED_PATTERNS[p] }
    IN IF hits = {} THEN 0 ELSE CHOOSE j \in hits : \A k \in hits : j <= k

\* BLOCKED_PATTERNS.some(pattern => pattern.test(value)) from pattern p on,
\* with the lastIndex values li: a test that matches leaves lastIndex at the
\* end of the match and ends the some(); one that does not resets lastIndex.
RECURSIVE someBlocked(_, _, _)
someBlocked(value, p, li) ==
    IF p > Len(BLOCKED_PATTERNS) THEN [found |-> FALSE, lastIndex |-> li]
    ELSE LET e == matchEnd(p, value, li[p])
         IN IF e # 0 THEN [found |-> TRUE, lastIndex |-> [li EXCEPT ![p] = e]]
            ELSE someBlocked(value, p + 1, [li EXCEPT ![p] = 0])

Invalid(message) == [isValid |-> FALSE, sanitized |-> << >>, error |-> message]
Valid(sanitized) == [isValid |-> TRUE, sanitized |-> sanitized, error |-> ""]

\* validateColor(color), validateFont(font), validateNumeric(value) with the
\* patterns' lastIndex values li: the result and the lastIndex values left.
validateColor(color, li) ==
    LET b == someBlocked(color, 1, li)
    IN [lastIndex |-> b.lastIndex,
        result |-> IF b.found THEN Invalid("Color contains blocked patterns")
                   ELSE IF ~ALLOWED_COLOR_FORMATS(color) THEN Invalid("Invalid color format")
                   ELSE Valid(sanitize(color))]

validateFont(font, li) ==
    LET b == someBlocked(font, 1, li)
    IN [lastIndex |-> b.lastIndex,
        result |-> IF b.found THEN Invalid("Font contains blocked patterns")
                   ELSE IF ~ALLOWED_FONT_VALUES(font) THEN Invalid("Invalid font format")
                   ELSE Valid(sanitize(font))]

validateNumeric(value, li) ==
    LET b == someBlocked(value, 1, li)
    IN [lastIndex |-> b.lastIndex,
        result |-> IF b.found THEN Invalid("Value contains blocked patterns")
                   ELSE IF ~ALLOWED_NUMERIC_VALUES(value) THEN Invalid("Invalid numeric format")
                   ELSE Valid(sanitize(value))]

\* The module just loaded, no validator called yet.
SecurityIdle ==
    /\ lastIndex = FreshLastIndex
    /\ validations = << >>

-----------------------------------------------------------------------------
(* Theme store *)

NoOp == [op |-> "none", a |-> Null, b |-> Null]

\* The theme detection hook has not rendered yet.
NoInfo == [rendered |-> FALSE, baseThemes |-> << >>, colorVariants |-> << >>]

\* What the awaited loadTheme(themePath) may settle with.
loadThemeResults == { loadTheme(themeFile, r) : r \in ThemeFetchResults }

\* The provider just mounted over the document at themePath, one of docs.
ThemeMounted(docs) ==
    /\ theme = FallbackTheme
    /\ isLoading = TRUE
    /\ isDarkMode = FALSE
    /\ \E ip \in CallerNames \cup {Null} :
          /\ currentPreset = ip
          /\ themeLoads = SetToBag({ip})
    /\ nThemeLoads = 1
    /\ themeFile \in docs
    /\ themeData = FallbackTheme
    /\ themeOp = NoOp
    /\ themeInfo = NoInfo
    /\ SecurityIdle

ThemeInit == ThemeMounted(ThemeDocs)

\* The load effect runs again because themePath or initialPreset changed; the
\* new run captures the new initialPreset. currentPreset is not touched.
ThemePropsChange(ip) ==
    /\ nThemeLoads < MaxThemeLoads
    /\ nThemeLoads' = nThemeLoads + 1
    /\ themeLoads' = themeLoads (+) SetToBag({ip})
    /\ themeOp' = [op |-> "props", a |-> Null, b |-> Null]
    /\ UNCHANGED <<theme, isLoading, currentPreset, isDarkMode, themeFile, themeData,
                   themeInfo, lastIndex, validations>>
    /\ UNCHANGED <<loaderVars, contentVars>>

\* loadThemeData after its await: setTheme(themeData), the initial preset when
\* the document has it, setIsDarkMode(prefersDarkMode()), setIsLoading(false).
\* When the awaited promise is rejected the catch block logs, and only
\* setIsLoading(false) of the finally block runs.
ThemeLoadDone(initialPreset, res, darkModePreferred) ==
    /\ BagIn(initialPreset, themeLoads)
    /\ themeLoads' = themeLoads (-) SetToBag({initialPreset})
    /\ IF res.rejected
       THEN UNCHANGED <<theme, isDarkMode, themeData>>
       ELSE /\ theme' = IF initialPreset # Null /\ HasPreset(res.value, initialPreset)
                        THEN applyPreset(res.value, initialPreset)
                        ELSE res.value
            /\ isDarkMode' = darkModePreferred
            /\ themeData' = res.value
    /\ isLoading' = FALSE
    /\ themeOp' = [op |-> "load", a |-> Null, b |-> Null]
    /\ UNCHANGED <<currentPreset, nThemeLoads, themeFile, themeInfo,
                   lastIndex, validations>>
    /\ UNCHANGED <<loaderVars, contentVars>>

\* setPreset(preset)
setPreset(preset) ==
    /\ IF HasPreset(theme, preset)
       THEN /\ theme' = applyPreset(theme, preset)
            /\ currentPreset' = preset
       ELSE UNCHANGED <<theme, currentPreset>>
    \* history: a = the preset of the directly preceding setPreset, if any
    /\ themeOp' = [op |-> "setPreset",
                   a |-> IF themeOp.op = "setPreset" /\ HasPreset(theme, themeOp.b)
                         THEN themeOp.b ELSE Null,
                   b |-> preset]
    /\ UNCHANGED <<isLoading, isDarkMode, themeLoads, nThemeLoads, themeFile, themeData,
                   themeInfo, lastIndex, validations>>
    /\ UNCHANGED <<loaderVars, contentVars>>

\* name.replace('-light', ''): the first '-light' piece is removed.
RECURSIVE RemoveFirstLight(_)
RemoveFirstLight(name) ==
    IF name = << >> THEN << >>
    ELSE IF Head(name) = LightSuffix THEN Tail(name)
    ELSE <<Head(name)>> \o RemoveFirstLight(Tail(name))

\* The fallback base name of toggleDarkMode.
DefaultBasePreset == <<"space">>

\* preset?.replace('-light', '') || 'space'
basePresetOf(preset) ==
    IF preset = Null \/ RemoveFirstLight(preset) = << >>
    THEN DefaultBasePreset
    ELSE RemoveFirstLight(preset)

\* currentPreset?.replace('-light', '') || 'space'
currentBasePreset == basePresetOf(currentPreset)

\* What toggleDarkMode() makes of the theme t, the current preset preset and
\* the flag dark: the flag is flipped; the counterpart preset is applied when
\* the theme has it, and nothing else happens when it has not.
toggled(t, preset, dark) ==
    LET target == IF ~dark
                  THEN Append(basePresetOf(preset), LightSuffix)
                  ELSE basePresetOf(preset)
    IN IF HasPreset(t, target)
       THEN [theme |-> applyPreset(t, target), currentPreset |-> target,
             isDarkMode |-> ~dark]
       ELSE [theme |-> t, currentPreset |-> preset, isDarkMode |-> ~dark]

\* toggleDarkMode()
toggleDarkMode ==
    /\ theme' = toggled(theme, currentPreset, isDarkMode).theme
    /\ currentPreset' = toggled(theme, currentPreset, isDarkMode).currentPreset
    /\ isDarkMode' = toggled(theme, currentPreset, isDarkMode).isDarkMode
    /\ themeOp' = [op |-> "toggle", a |-> Null, b |-> Null]
    /\ UNCHANGED <<isLoading, themeLoads, nThemeLoads, themeFile, themeData, themeInfo,
                   lastIndex, validations>>
    /\ UNCHANGED <<loaderVars, contentVars>>

ThemeNext ==
    \/ \E ip \in CallerNames \cup {Null} : ThemePropsChange(ip)
    \/ \E ip \in BagToSet(themeLoads), res \in loadThemeResults, d \in BOOLEAN :
          ThemeLoadDone(ip, res, d)
    \/ \E p \in CallerNames : setPreset(p)
    \/ toggleDarkMode

-----------------------------------------------------------------------------
(* Theme switcher component *)

\* availablePresets of the store: Object.keys(theme.presets), [] without presets.
availablePresets == theme.keys

\* list.includes(x)
ListIncludes(list, x) == \E i \in DOMAIN list : list[i] = x

\* name.includes('-light')
IncludesLight(name) == ListIncludes(name, LightSuffix)

\* availablePresets.find(preset => preset.includes('-light')) when light, and
\* .find(preset => !preset.includes('-light')) when not; Null is undefined.
RECURSIVE findPreset(_, _)
findPreset(list, light) ==
    IF list = << >> THEN Null
    ELSE IF IncludesLight(Head(list)) = light THEN Head(list)
    ELSE findPreset(Tail(list), light)

\* The fallback base name of the switcher.
SwitcherDefaultBase == <<"green">>

\* currentPreset?.replace('-light', '') || 'green'
currentBaseTheme ==
    IF currentPreset = Null \/ RemoveFirstLight(currentPreset) = << >>
    THEN SwitcherDefaultBase
    ELSE RemoveFirstLight(currentPreset)

\* !currentPreset?.includes('-light')
isCurrentlyDarkMode == currentPreset = Null \/ ~IncludesLight(currentPreset)

\* The counterpart the switcher looks for first.
switcherCounterpart ==
    IF isCurrentlyDarkMode THEN Append(currentBaseTheme, LightSuffix)
    ELSE currentBaseTheme

\* Mutant: the switcher gives up when the counterpart is missing.
switcherTargetNoFallback ==
    IF ListIncludes(availablePresets, switcherCounterpart) THEN switcherCounterpart
    ELSE Null

\* The preset handleDarkModeToggle passes to setPreset, Null when it calls
\* nothing: the counterpart when availablePresets has it, else the first
\* preset of the wanted kind.
switcherTarget ==
    IF ListIncludes(availablePresets, switcherCounterpart) THEN switcherCounterpart
    ELSE findPreset(availablePresets, isCurrentlyDarkMode)

\* handleDarkModeToggle() of the switcher: it calls the store's setPreset and
\* never the store's toggleDarkMode, so isDarkMode stays as it is.
handleDarkModeToggle ==
    /\ IF switcherTarget # Null /\ HasPreset(theme, switcherTarget)
       THEN /\ theme' = applyPreset(theme, switcherTarget)
            /\ currentPreset' = switcherTarget
       ELSE UNCHANGED <<theme, currentPreset>>
    \* history: a = currentPreset at the call, b = the counterpart looked for
    /\ themeOp' = [op |-> "switcherToggle", a |-> currentPreset,
                   b |-> switcherCounterpart]
    /\ UNCHANGED <<isLoading, isDarkMode, themeLoads, nThemeLoads, themeFile, themeData,
                   themeInfo, lastIndex, validations>>
    /\ UNCHANGED <<loaderVars, contentVars>>

SwitcherNext ==
    \/ ThemeNext
    \/ handleDarkModeToggle

-----------------------------------------------------------------------------
(* Theme detection hook *)

\* The most presets a document given to the detection hook has.
MaxKeys == 3

\* Preset names of the documents the detection hook is exercised with; the
\* last one has '-light' inside the name ('moon-lighting').
DetectionNames ==
    { <<"green">>, <<"green", LightSuffix>>, <<"blue">>, <<"moon", LightSuffix, "ing">> }

\* A preset the document gives no colors.
ColorlessPreset == [fonts |-> EmptyObj]

\* The documents the detection hook is exercised with: up to MaxKeys presets
\* of DetectionNames in any order, each with a colors object or without one.
DetectionDocs ==
    { [colors |-> BaseColors, fonts |-> BaseFonts,
       presets |-> [n \in DOMAIN hc |->
                      IF hc[n] THEN MkPreset(n, {"primary"}, {}) ELSE ColorlessPreset],
       keys |-> q,
       hasPresets |-> TRUE] :
        <<q, hc>> \in UNION { KeyOrders(ns) \X [ns -> BOOLEAN] :
                                ns \in { x \in SUBSET DetectionNames :
                                           Cardinality(x) <= MaxKeys } } }
    \cup { [colors |-> BaseColors, fonts |-> BaseFonts, presets |-> EmptyObj,
            keys |-> << >>, hasPresets |-> FALSE] }

\* baseThemes after the forEach over the keys still to visit.
RECURSIVE collectBaseThemes(_, _)
collectBaseThemes(keys, baseThemes) ==
    IF keys = << >> THEN baseThemes
    ELSE LET baseTheme == RemoveFirstLight(Head(keys))
         IN collectBaseThemes(Tail(keys),
                IF ListIncludes(baseThemes, baseTheme) THEN baseThemes
                ELSE Append(baseThemes, baseTheme))

\* Mutant: the variant is named after the base theme.
colorVariantNamedByBase(presets, presetName) ==
    [name |-> RemoveFirstLight(presetName), colors |-> presets[presetName].colors]

\* The entry pushed for a preset that has colors.
colorVariant(presets, presetName) ==
    [name |-> presetName, colors |-> presets[presetName].colors]

\* colorVariants after the forEach over the keys still to visit: a preset
\* without colors is skipped.
RECURSIVE collectColorVariants(_, _, _)
collectColorVariants(presets, keys, colorVariants) ==
    IF keys = << >> THEN colorVariants
    ELSE collectColorVariants(presets, Tail(keys),
            IF "colors" \in DOMAIN presets[Head(keys)]
            THEN Append(colorVariants, colorVariant(presets, Head(keys)))
            ELSE colorVariants)

\* getDynamicThemeInfo() over the theme t of the store.
getDynamicThemeInfo(t) ==
    IF t.hasPresets /\ Len(t.keys) > 0
    THEN [rendered |-> TRUE,
          baseThemes |-> collectBaseThemes(t.keys, << >>),
          colorVariants |-> collectColorVariants(t.presets, t.keys, << >>)]
    ELSE [rendered |-> TRUE, baseThemes |-> << >>, colorVariants |-> << >>]

\* The store holding a loaded document, the hook not rendered yet.
DetectionInit ==
    /\ theme \in DetectionDocs
    /\ themeFile = theme
    /\ themeData = theme
    /\ isLoading = FALSE
    /\ isDarkMode \in BOOLEAN
    /\ currentPreset = Null
    /\ themeLoads = EmptyBag
    /\ nThemeLoads = 1
    /\ themeOp = NoOp
    /\ themeInfo = NoInfo
    /\ SecurityIdle

\* A render of a component using useDynamicThemeDetection.
useDynamicThemeDetection ==
    /\ themeInfo' = getDynamicThemeInfo(theme)
    /\ UNCHANGED <<lastIndex, validations>>
    /\ UNCHANGED <<theme, isLoading, currentPreset, isDarkMode, themeLoads, nThemeLoads,
                   themeFile, themeData, themeOp>>
    /\ UNCHANGED <<loaderVars, contentVars>>

DetectionNext == useDynamicThemeDetection

-----------------------------------------------------------------------------
(* Security utilities: calls *)

\* A call of the validator fn finished: the patterns keep the lastIndex
\* values it left.
Validated(fn, value, v) ==
    /\ Len(validations) < MaxValidations
    /\ lastIndex' = v.lastIndex
    /\ validations' = Append(validations, [fn |-> fn, input |-> value, result |-> v.result])
    /\ UNCHANGED <<theme, isLoading, currentPreset, isDarkMode, themeLoads, nThemeLoads,
                   themeFile, themeData, themeOp, themeInfo>>
    /\ UNCHANGED <<loaderVars, contentVars>>

ValidateColor(color) == Validated("validateColor", color, validateColor(color, lastIndex))
ValidateFont(font) == Validated("validateFont", font, validateFont(font, lastIndex))
ValidateNumeric(value) ==
    Validated("validateNumeric", value, validateNumeric(value, lastIndex))

SecurityNext ==
    \/ \E color \in ValidatorInputs : ValidateColor(color)
    \/ \E font \in ValidatorInputs : ValidateFont(font)
    \/ \E value \in ValidatorInputs : ValidateNumeric(value)

-----------------------------------------------------------------------------
(* Smart content loader: data *)

\* Content payloads. kind says which endpoint (or the existing provider)
\* the payload came from, priv whether private or additional content fetched
\* with the auth token was merged into it, by which loadContent call obtained
\* it (every fetch yields a new object).
NoData == [kind |-> "none", priv |-> FALSE, by |-> 0]

\* {} as T
EmptyContent == [kind |-> "empty", priv |-> FALSE, by |-> 0]

Content(kind, priv, c) == [kind |-> kind, priv |-> priv, by |-> c]

\* One minute in the milliseconds of Date.now().
Minute == 60000

\* The amounts by which the clock advances between two tasks.
TickSteps == { 5 * Minute, 6 * Minute, 25 * Minute, 31 * Minute, 60 * Minute }

\* contentType arguments of the model (the cache key).
ContentTypes == { "auto" }

\* navigator.userAgent values; NoNavigator stands for typeof navigator ===
\* 'undefined'.
NoNavigator == << >>
UA_Chrome == <<"M", "o", "z", "i", "l", "l", "a", "/", "5", ".", "0", " ", "C", "h", "r", "o", "m", "e">>
UA_Headless == <<"H", "e", "a", "d", "l", "e", "s", "s", "C", "h", "r", "o", "m", "e">>
UserAgents == { UA_Chrome, UA_Headless, NoNavigator }

\* String.prototype.toLowerCase, on the letters the user agents use.
LowerChar(ch) ==
    CASE ch = "M" -> "m" [] ch = "C" -> "c" [] ch = "H" -> "h" [] OTHER -> ch

toLowerCase(s) == [i \in 1..Len(s) |-> LowerChar(s[i])]

\* String.prototype.includes
Includes(s, term) ==
    \E i \in 1..(Len(s) - Len(term) + 1) : SubSeq(s, i, i + Len(term) - 1) = term

\* checkForScraping's denylist
suspicious ==
    { <<"h", "e", "a", "d", "l", "e", "s", "s">>,
      <<"p", "h", "a", "n", "t", "o", "m", "j", "s">>,
      <<"s", "e", "l", "e", "n", "i", "u", "m">>,
      <<"b", "o", "t">>,
      <<"c", "r", "a", "w", "l", "e", "r">> }

-----------------------------------------------------------------------------
(* NetworkMonitor *)

\* Latencies (ms) a '/ping' probe may measure, and the value a failed probe yields.
LatencySamples == { 50, 200 }
LatencyOnError == 1000

\* Bandwidths (bytes/s) a '/test-file.txt' probe may compute from content-length,
\* and the default when the header is missing or the fetch throws.
BandwidthSamples == { 2000000, 200000 }
DefaultBandwidth == 100000

ExcellentLatency == 100
ExcellentBandwidth == 1000000
GoodLatency == 300
GoodBandwidth == 100000

\* assessNetworkQuality's classification
NetworkQuality(latency, bandwidth) ==
    IF latency < ExcellentLatency /\ bandwidth > ExcellentBandwidth THEN "excellent"
    ELSE IF latency < GoodLatency /\ bandwidth > GoodBandwidth THEN "good"
    ELSE "poor"

-----------------------------------------------------------------------------
(* SecurityManager *)

RateWindow == 60000
RateLimit == 10

\* Mutant: one identity for every call.
getClientIdOfSession(c) == 0

\* getClientId(): Math.random().toString(36).substring(2), a new identity on
\* every call; the model names it by the call.
getClientId(c) == c

\* checkRateLimit(): [ok, hist], ok = FALSE standing for the throw.
checkRateLimit(hist, clientId, t) ==
    IF clientId \notin DOMAIN hist
    THEN [ok |-> TRUE, hist |-> hist @@ (clientId :> [count |-> 1, lastRequest |-> t])]
    ELSE IF hist[clientId].lastRequest < t - RateWindow
    THEN [ok |-> TRUE, hist |-> [hist EXCEPT ![clientId] = [count |-> 1, lastRequest |-> t]]]
    ELSE IF hist[clientId].count >= RateLimit
    THEN [ok |-> FALSE, hist |-> hist]
    ELSE [ok |-> TRUE,
          hist |-> [hist EXCEPT ![clientId] = [count |-> @.count + 1, lastRequest |-> t]]]

\* checkForScraping(): TRUE when it throws 'Access denied'.
checkForScraping(userAgent) ==
    /\ userAgent # NoNavigator
    /\ \E term \in suspicious : Includes(toLowerCase(userAgent), term)

\* validateRequest(): [gate, hist]; gate is "passed", or names the check that threw.
validateRequest(hist, config, userAgent, c, t) ==
    LET rl == IF config.rateLimiting THEN checkRateLimit(hist, getClientId(c), t)
              ELSE [ok |-> TRUE, hist |-> hist]
    IN IF ~rl.ok THEN [gate |-> "limited", hist |-> rl.hist]
       ELSE IF config.antiScraping /\ checkForScraping(userAgent)
       THEN [gate |-> "denied", hist |-> rl.hist]
       ELSE [gate |-> "passed", hist |-> rl.hist]

-----------------------------------------------------------------------------
(* SmartContentLoader: cache *)

TTLExcellent == 300000
TTLGood == 600000
TTLPoor == 1800000
StaleLimit == 3600000

\* The switch of getSmartCache
cacheTime(networkQuality) ==
    CASE networkQuality = "excellent" -> TTLExcellent
      [] networkQuality = "good" -> TTLGood
      [] networkQuality = "poor" -> TTLPoor
      [] OTHER -> TTLGood

\* Map.delete
MapDelete(m, key) == [k \in (DOMAIN m) \ {key} |-> m[k]]

\* Map.set
MapSet(m, key, v) == [k \in (DOMAIN m) \cup {key} |-> IF k = key THEN v ELSE m[k]]

\* Mutant: an expired entry is still served.
getSmartCacheNoExpiry(m, key, networkQuality, t) ==
    IF key \notin DOMAIN m THEN [found |-> NoData, cache |-> m]
    ELSE [found |-> m[key].data, cache |-> m]

\* getSmartCache(key, networkQuality): [found, cache]; found is the entry's data
\* or NoData (null), cache the map afterwards (an expired entry is deleted).
getSmartCache(m, key, networkQuality, t) ==
    IF key \notin DOMAIN m THEN [found |-> NoData, cache |-> m]
    ELSE IF t - m[key].timestamp > cacheTime(networkQuality)
    THEN [found |-> NoData, cache |-> MapDelete(m, key)]
    ELSE [found |-> m[key].data, cache |-> m]

\* Mutant: setSmartCache keeps an entry that is already there.
setSmartCacheKeepsFirst(m, key, data, t) ==
    IF key \in DOMAIN m THEN m ELSE MapSet(m, key, [data |-> data, timestamp |-> t])

\* setSmartCache(key, data, networkQuality); the etag, a hash of the data that
\* nothing reads, is left out.
setSmartCache(m, key, data, t) ==
    MapSet(m, key, [data |-> data, timestamp |-> t])

\* Mutant: the stale cache is never consulted.
getStaleCacheNever(m, key, t) == NoData

\* getStaleCache(key): the entry's data when younger than one hour, else NoData.
getStaleCache(m, key, t) ==
    IF key \notin DOMAIN m THEN NoData
    ELSE IF t - m[key].timestamp < StaleLimit THEN m[key].data
    ELSE NoData

-----------------------------------------------------------------------------
(* SmartContentLoader: one loadContent call *)

NoResponse == [data |-> NoData, cacheStatus |-> "none", networkQuality |-> "none",
               seoOptimized |-> FALSE]

\* createResponse(); loadTime, securityLevel, seo and performance are statistics
\* no behaviour depends on and are left out.
createResponse(data, cacheStatus, networkQuality, seoOptimized) ==
    [data |-> data, cacheStatus |-> cacheStatus, networkQuality |-> networkQuality,
     seoOptimized |-> seoOptimized]

\* A call just made: measureLatency has issued fetch('/ping'). useExisting
\* stands for options.useExisting && this.existingContentProvider.
\* History fields: fetchLog (the endpoints fetched, in order of issue),
\* fetchesAtGate, lookup/lookupAge/lookupData (what the cache lookup found),
\* seenWrites, failed, staleAtError, minimal.
NewCall(contentType, authToken, useExisting) ==
    [pc |-> "ping", contentType |-> contentType, authToken |-> authToken,
     useExisting |-> useExisting, latency |-> 0, networkQuality |-> "none",
     fetchLog |-> <<"ping">>, gate |-> "pending", fetchesAtGate |-> -1,
     lookup |-> "pending", lookupAge |-> -1, lookupData |-> NoData,
     seenWrites |-> -1, wrote |-> FALSE, failed |-> FALSE, staleAtError |-> NoData,
     minimal |-> "none", essentialKind |-> "none", outcome |-> "pending", response |-> NoResponse]

\* The call with fetch(endpoint) issued and awaited at stage pc.
Fetch(call, endpoint, pc) ==
    [call EXCEPT !.fetchLog = Append(@, endpoint), !.pc = pc]

\* The promise resolves with response r.
Resolve(call, r) ==
    [call EXCEPT !.pc = "done", !.outcome = "resolved", !.response = r]

\* A world is what one run of a call's continuation reads and writes: the call,
\* the cache, the rate-limit history and the history of cache writes.

\* handleError() up to its await: the stale cache answers, or
\* loadMinimalContent issues fetch('/content/minimal.json').
handleError(w, t) ==
    LET key == w.call.contentType
        staleCache == getStaleCache(w.cache, key, t)
        avail == IF key \in DOMAIN w.cache /\ t - w.cache[key].timestamp < StaleLimit
                 THEN w.cache[key].data ELSE NoData
        call == [w.call EXCEPT !.failed = TRUE, !.staleAtError = avail]
    IN IF staleCache # NoData
       THEN [w EXCEPT !.call = Resolve(call, createResponse(staleCache, "miss", "poor", FALSE))]
       ELSE [w EXCEPT !.call = Fetch(call, "minimal", "minimal")]

\* Steps 5 to 7 of loadContent and its return: the SEO data is attached,
\* the load recorded, the content cached and the response created.
finishLoad(w, loaded, t) ==
    LET key == w.call.contentType
    IN [w EXCEPT
          !.cache = setSmartCache(w.cache, key, loaded, t),
          !.writes = [k \in (DOMAIN w.writes) \cup {key} |->
                        Append(IF k \in DOMAIN w.writes THEN w.writes[k] ELSE << >>,
                               [data |-> loaded, seenWrites |-> w.call.seenWrites])],
          !.call = Resolve([w.call EXCEPT !.wrote = TRUE],
                           createResponse(loaded, "miss", w.call.networkQuality, TRUE))]

\* Mutant: the good tier also starts both fetches at once.
loadContentIntelligentlyNeverBalanced(w) ==
    LET q == w.call.networkQuality
    IN IF q \in { "excellent", "good" }
       THEN IF w.call.authToken
            THEN [w EXCEPT !.call = Fetch(Fetch(w.call, "public", "fast"), "private", "fast")]
            ELSE [w EXCEPT !.call = Fetch(w.call, "public", "fast-public")]
       ELSE [w EXCEPT !.call = Fetch(w.call, "essential", "essential")]

\* loadContentIntelligently() up to its first await
loadContentIntelligently(w) ==
    LET q == w.call.networkQuality
    IN IF q = "excellent"
       THEN IF w.call.authToken
            THEN [w EXCEPT !.call = Fetch(Fetch(w.call, "public", "fast"), "private", "fast")]
            ELSE [w EXCEPT !.call = Fetch(w.call, "public", "fast-public")]
       ELSE IF q = "good"
       THEN [w EXCEPT !.call = Fetch(w.call, "public", "balanced-public")]
       ELSE [w EXCEPT !.call = Fetch(w.call, "essential", "essential")]

\* Mutant: a cache hit does not end the call, the content is loaded anyway.
lookupAndLoadFetchesOnHit(w, t) ==
    LET key == w.call.contentType
        cached == getSmartCache(w.cache, key, w.call.networkQuality, t)
        call == [w.call EXCEPT
                   !.lookup = IF key \notin DOMAIN w.cache THEN "absent"
                              ELSE IF cached.found # NoData THEN "hit" ELSE "expired",
                   !.lookupAge = IF key \in DOMAIN w.cache
                                 THEN t - w.cache[key].timestamp ELSE -1,
                   !.lookupData = IF key \in DOMAIN w.cache
                                  THEN w.cache[key].data ELSE NoData,
                   !.seenWrites = IF key \in DOMAIN w.writes
                                  THEN Len(w.writes[key]) ELSE 0]
        w1 == [w EXCEPT !.call = call, !.cache = cached.cache]
    IN IF call.useExisting
       THEN finishLoad(w1, Content("existing", FALSE, w.id), t)
       ELSE loadContentIntelligently(w1)

\* loadContent from the cache lookup (step 3) to its next await or its return.
lookupAndLoad(w, t) ==
    LET key == w.call.contentType
        cached == getSmartCache(w.cache, key, w.call.networkQuality, t)
        call == [w.call EXCEPT
                   !.lookup = IF key \notin DOMAIN w.cache THEN "absent"
                              ELSE IF cached.found # NoData THEN "hit" ELSE "expired",
                   !.lookupAge = IF key \in DOMAIN w.cache
                                 THEN t - w.cache[key].timestamp ELSE -1,
                   !.lookupData = IF key \in DOMAIN w.cache
                                  THEN w.cache[key].data ELSE NoData,
                   !.seenWrites = IF key \in DOMAIN w.writes
                                  THEN Len(w.writes[key]) ELSE 0]
        w1 == [w EXCEPT !.call = call, !.cache = cached.cache]
    IN IF cached.found # NoData
       THEN [w1 EXCEPT !.call = Resolve(call, createResponse(cached.found, "hit",
                                                call.networkQuality, TRUE))]
       ELSE IF call.useExisting
       THEN finishLoad(w1, Content("existing", FALSE, w.id), t)
       ELSE loadContentIntelligently(w1)

\* loadContent from the security checks (step 2) on.
validateAndLoad(w, e, t) ==
    LET v == validateRequest(w.hist, e.security, e.userAgent, w.id, t)
        call == [w.call EXCEPT !.gate = v.gate, !.fetchesAtGate = Len(w.call.fetchLog)]
        w1 == [w EXCEPT !.call = call, !.hist = v.hist]
    IN IF v.gate # "passed" THEN handleError(w1, t)
       ELSE lookupAndLoad(w1, t)

-----------------------------------------------------------------------------
(* SmartContentLoader: actions *)

\* The default security configuration of the constructor.
DefaultSecurity == [rateLimiting |-> TRUE, antiScraping |-> TRUE]

\* The loader configurations and navigators of the model: the default
\* configuration under every user agent, and every other configuration under
\* the user agent the denylist matches.
Envs ==
    { e \in [userAgent : UserAgents,
             security : [rateLimiting : BOOLEAN, antiScraping : BOOLEAN]] :
        e.security = DefaultSecurity \/ e.userAgent = UA_Headless }

LoaderInit ==
    /\ cache = << >>
    /\ requestHistory = << >>
    /\ calls = << >>
    /\ nCalls = 0
    /\ writes = << >>
    /\ gateLog = << >>
    /\ now = 0
    /\ ticks = 0
    /\ env \in Envs

World(c) ==
    [id |-> c, call |-> calls[c], cache |-> cache, hist |-> requestHistory,
     writes |-> writes]

Commit(w) ==
    /\ calls' = [calls EXCEPT ![w.id] = w.call]
    /\ cache' = w.cache
    /\ requestHistory' = w.hist
    /\ writes' = w.writes
    /\ UNCHANGED <<nCalls, now, ticks, env, gateLog>>
    /\ UNCHANGED <<themeVars, contentVars>>

AtStage(c, pc) == c \in DOMAIN calls /\ calls[c].pc = pc

\* loadContent(contentType, authToken, options) is called: it runs to the
\* await of the '/ping' probe.
StartCall(contentType, authToken, useExisting) ==
    /\ nCalls < MaxCalls
    /\ nCalls' = nCalls + 1
    /\ calls' = calls @@ ((nCalls + 1) :> NewCall(contentType, authToken, useExisting))
    /\ UNCHANGED <<cache, requestHistory, writes, now, ticks, env, gateLog>>
    /\ UNCHANGED <<themeVars, contentVars>>

\* A caller that awaits each loadContent before the next.
LoadContentInTurn(contentType, authToken, useExisting) ==
    /\ DOMAIN calls = {}
    /\ StartCall(contentType, authToken, useExisting)

\* Callers that do not wait for each other.
LoadContentConcurrently(contentType, authToken) ==
    StartCall(contentType, authToken, FALSE)

\* measureLatency resumes with the latency it returns (the time measured, or
\* LatencyOnError when the fetch threw); measureBandwidth issues
\* fetch('/test-file.txt').
PingDone(c, latency) ==
    /\ AtStage(c, "ping")
    /\ Commit([World(c) EXCEPT
          !.call = Fetch([@ EXCEPT !.latency = latency], "test-file", "bandwidth")])

\* measureBandwidth resumes with the bandwidth it returns (computed from
\* content-length, or DefaultBandwidth without the header or when the fetch
\* threw), the quality is classified, assessNetworkQuality returns (its local
\* latency is gone), and loadContent continues with the security checks.
BandwidthDone(c, bandwidth) ==
    /\ AtStage(c, "bandwidth")
    /\ LET w == [World(c) EXCEPT
                   !.call.networkQuality = NetworkQuality(calls[c].latency, bandwidth),
                   !.call.latency = 0]
       IN Commit(validateAndLoad(w, env, now))

\* loadContentFast: one of the fetches of Promise.all settles.
FastDone(c, endpoint, ok) ==
    /\ c \in DOMAIN calls
    /\ \/ calls[c].pc = "fast"
       \/ calls[c].pc = "fast-public" /\ endpoint = "public"
       \/ calls[c].pc = "fast-private" /\ endpoint = "private"
    /\ LET w == World(c)
       IN IF ~ok THEN Commit(handleError(w, now))
          ELSE IF calls[c].pc = "fast"
          THEN Commit([w EXCEPT !.call.pc = IF endpoint = "public" THEN "fast-private"
                                            ELSE "fast-public"])
          ELSE Commit(finishLoad(w, Content("public", calls[c].authToken, c), now))

\* loadContentBalanced: the public fetch settles.
BalancedPublicDone(c, ok) ==
    /\ AtStage(c, "balanced-public")
    /\ LET w == World(c)
       IN IF ~ok THEN Commit(handleError(w, now))
          ELSE IF calls[c].authToken
          THEN Commit([w EXCEPT !.call = Fetch(@, "private", "balanced-private")])
          ELSE Commit(finishLoad(w, Content("public", FALSE, c), now))

\* loadContentBalanced: the private fetch settles.
BalancedPrivateDone(c, ok) ==
    /\ AtStage(c, "balanced-private")
    /\ LET w == World(c)
       IN IF ~ok THEN Commit(handleError(w, now))
          ELSE Commit(finishLoad(w, Content("public", TRUE, c), now))

\* loadContentProgressive after the essential (or its public fallback) content
\* arrived: loadAdditionalContent fetches when there is a token.
afterEssential(w, kind, t) ==
    IF w.call.authToken
    THEN [w EXCEPT !.call = Fetch([@ EXCEPT !.essentialKind = kind],
                                  "additional", "additional")]
    ELSE finishLoad(w, Content(kind, FALSE, w.id), t)

\* loadEssentialContent: the fetch settles: "ok", "notok" (a response that is
\* not ok: the public content is fetched instead) or "throws".
EssentialDone(c, r) ==
    /\ AtStage(c, "essential")
    /\ LET w == World(c)
       IN IF r = "throws" THEN Commit(handleError(w, now))
          ELSE IF r = "notok"
          THEN Commit([w EXCEPT !.call = Fetch(@, "public", "essential-public")])
          ELSE Commit(afterEssential(w, "essential", now))

\* loadEssentialContent: the public fetch it fell back to settles.
EssentialPublicDone(c, ok) ==
    /\ AtStage(c, "essential-public")
    /\ LET w == World(c)
       IN IF ~ok THEN Commit(handleError(w, now))
          ELSE Commit(afterEssential(w, "public", now))

\* loadAdditionalContent: the fetch settles; its failure is swallowed.
AdditionalDone(c, ok) ==
    /\ AtStage(c, "additional")
    /\ Commit(finishLoad(World(c), Content(calls[c].essentialKind, ok, c), now))

\* loadMinimalContent: the fetch settles; handleError returns the response.
MinimalDone(c, ok) ==
    /\ AtStage(c, "minimal")
    /\ LET data == IF ok THEN Content("minimal", FALSE, c) ELSE EmptyContent
       IN Commit([World(c) EXCEPT
             !.call = Resolve([@ EXCEPT !.minimal = IF ok THEN "ok" ELSE "failed"],
                              createResponse(data, "miss", "poor", FALSE))])

\* The caller has taken the settled promise's result.
Return(c) ==
    /\ AtStage(c, "done")
    /\ calls' = [k \in (DOMAIN calls) \ {c} |-> calls[k]]
    /\ UNCHANGED <<cache, requestHistory, writes, nCalls, now, ticks, env, gateLog>>
    /\ UNCHANGED <<themeVars, contentVars>>

\* Time passes between two tasks.
Tick(d) ==
    /\ ticks < MaxTicks
    /\ ticks' = ticks + 1
    /\ now' = now + d
    /\ UNCHANGED <<cache, requestHistory, writes, calls, nCalls, env, gateLog>>
    /\ UNCHANGED <<themeVars, contentVars>>

\* The identities of the calls.
CallIds == 1..MaxCalls

\* The steps of the calls in flight.
CallStep ==
    \/ \E c \in CallIds, r \in LatencySamples \cup {LatencyOnError} : PingDone(c, r)
    \/ \E c \in CallIds, r \in BandwidthSamples \cup {DefaultBandwidth} : BandwidthDone(c, r)
    \/ \E c \in CallIds, e \in {"public", "private"}, ok \in BOOLEAN : FastDone(c, e, ok)
    \/ \E c \in CallIds, ok \in BOOLEAN : BalancedPublicDone(c, ok)
    \/ \E c \in CallIds, ok \in BOOLEAN : BalancedPrivateDone(c, ok)
    \/ \E c \in CallIds, r \in {"ok", "notok", "throws"} : EssentialDone(c, r)
    \/ \E c \in CallIds, ok \in BOOLEAN : EssentialPublicDone(c, ok)
    \/ \E c \in CallIds, ok \in BOOLEAN : AdditionalDone(c, ok)
    \/ \E c \in CallIds, ok \in BOOLEAN : MinimalDone(c, ok)
    \/ \E c \in CallIds : Return(c)

\* The amounts by which the clock advances between two requests: within the
\* rate-limit window and past it.
GateTickSteps == { RateWindow \div 2, RateWindow + 1000 }

\* A loadContent call reaches its security checks (step 2 of loadContent):
\* validateRequest() runs on the SecurityManager. What the call does before
\* and after is CallStep's; here only the SecurityManager is watched.
SecurityCheck ==
    /\ nCalls < MaxRequests
    /\ LET v == validateRequest(requestHistory, env.security, env.userAgent,
                                nCalls + 1, now)
       IN /\ requestHistory' = v.hist
          /\ gateLog' = Append(gateLog, [gate |-> v.gate, at |-> now])
    /\ nCalls' = nCalls + 1
    /\ UNCHANGED <<cache, calls, writes, now, ticks, env>>
    /\ UNCHANGED <<themeVars, contentVars>>

GateNext ==
    \/ SecurityCheck
    \/ \E d \in GateTickSteps : Tick(d)

LoaderNextInTurn ==
    \/ \E ct \in ContentTypes, tok \in BOOLEAN, ux \in BOOLEAN :
          LoadContentInTurn(ct, tok, ux)
    \/ CallStep
    \/ \E d \in TickSteps : Tick(d)

LoaderNextConcurrent ==
    \/ \E ct \in ContentTypes, tok \in BOOLEAN : LoadContentConcurrently(ct, tok)
    \/ CallStep

-----------------------------------------------------------------------------
(* Content store: content.loadContent and the module's contentCache *)

\* ContentData values: {} ("empty"), a JSON document the server returned in
\* version v ("json"), the wrapping { content: { text } } of a text body
\* ("text"), or the object passed as source ("object").
ContentDoc(shape, v) == [shape |-> shape, v |-> v]

EmptyContentData == ContentDoc("empty", 0)

\* The versions of the document the server may answer with.
Versions == { 1, 2 }

\* A string source (a path) or an object source.
PathSource == [isString |-> TRUE, path |-> "/content/content.json"]
ObjectSource == [isString |-> FALSE, path |-> ""]

DefaultCacheDuration == 3600000

DEFAULT_CONTENT_OPTIONS ==
    [defaultLanguage |-> "en", format |-> "json", cacheDuration |-> DefaultCacheDuration]

\* The ids of DEFAULT_CONTENT_STYLES.
DEFAULT_CONTENT_STYLES == { "default", "marketing", "portfolio", "business" }

\* The body of a response in the format asked for.
ProcessFormat(format, v) ==
    IF format \in { "text", "markdown", "html" } THEN ContentDoc("text", v)
    ELSE ContentDoc("json", v)

\* loadContent(source, options) up to its await: the source itself when it is
\* an object, the cached data when the entry is younger than cacheDuration
\* (a cacheDuration of 0 is falsy and turns the cache off), else the fetch is
\* issued; now is the Date.now() the call captured.
loadContent(source, options, m, t) ==
    IF ~source.isString
    THEN [pc |-> "resolved", data |-> ContentDoc("object", 0), now |-> t]
    ELSE IF /\ source.path \in DOMAIN m
            /\ options.cacheDuration # 0
            /\ t - m[source.path].timestamp < options.cacheDuration
    THEN [pc |-> "resolved", data |-> m[source.path].data, now |-> t]
    ELSE [pc |-> "fetch", data |-> EmptyContentData, now |-> t]

-----------------------------------------------------------------------------
(* Content store: ContentProvider *)

\* The props of the model's providers.
ContentProps ==
    [source : { PathSource, ObjectSource },
     options : { << >>, [cacheDuration |-> 0], [format |-> "text"],
                 [defaultLanguage |-> ""] },
     initialLanguage : { "en" },
     initialContentStyle : { "default", "bogus" },
     customContentStyles : { {}, { "brand" } }]

mergedOptions == Spread(DEFAULT_CONTENT_OPTIONS, contentProps.options)

\* [...DEFAULT_CONTENT_STYLES, ...customContentStyles], by id
availableContentStyles == DEFAULT_CONTENT_STYLES \cup contentProps.customContentStyles

\* The load events, which are not consumer operations.
NoContentOp == [op |-> "none", arg |-> ""]

\* The content detection hook has not rendered yet.
NoContentInfo ==
    [rendered |-> FALSE, availableLanguages |-> << >>, contentSections |-> << >>,
     contentStyles |-> << >>]

validateContentStyle(styleId, styles) == styleId \in styles

\* loadContentData() up to its await of loadContent; by is "mount" for the
\* effect and "reload" for reload().
loadContentData(by, id, t) ==
    /\ loading' = TRUE
    /\ error' = Null
    /\ loads' = loads @@
          (id :> (loadContent(contentProps.source, mergedOptions, contentCache, t)
                    @@ [by |-> by]))
    /\ nLoads' = id

\* loadContentData() after its await: the content is replaced, an invalid
\* initial style falls back to 'default', loading ends.
loadContentDataDone(id, contentData) ==
    /\ content' = contentData
    /\ lastLoaded' = contentData
    /\ currentContentStyle' =
          IF validateContentStyle(contentProps.initialContentStyle, availableContentStyles)
          THEN currentContentStyle ELSE "default"
    /\ loading' = FALSE
    /\ loads' = [k \in (DOMAIN loads) \ {id} |-> loads[k]]

\* The provider after its first render and its load effect.
ContentInit ==
    /\ contentProps \in ContentProps
    /\ content = EmptyContentData
    /\ lastLoaded = EmptyContentData
    /\ loading = TRUE
    /\ error = Null
    /\ language = contentProps.initialLanguage
    /\ currentContentStyle = contentProps.initialContentStyle
    /\ contentCache = << >>
    /\ loads = (1 :> (loadContent(contentProps.source,
                                  Spread(DEFAULT_CONTENT_OPTIONS, contentProps.options),
                                  << >>, 0) @@ [by |-> "mount"]))
    /\ nLoads = 1
    /\ contentOp = NoContentOp
    /\ contentInfo = NoContentInfo

\* reload()
reload ==
    /\ nLoads < MaxLoads
    /\ loadContentData("reload", nLoads + 1, now)
    /\ contentOp' = [op |-> "reload", arg |-> ""]
    /\ UNCHANGED contentInfo
    /\ UNCHANGED <<content, lastLoaded, language, currentContentStyle, contentCache,
                   contentProps>>
    /\ UNCHANGED <<themeVars, loaderVars>>

\* loadContent's promise, resolved without a fetch, is taken by
\* loadContentData.
ContentResolved(id) ==
    /\ id \in DOMAIN loads
    /\ loads[id].pc = "resolved"
    /\ loadContentDataDone(id, loads[id].data)
    /\ contentOp' = NoContentOp
    /\ UNCHANGED contentInfo
    /\ UNCHANGED <<error, language, contentCache, contentProps, nLoads>>
    /\ UNCHANGED <<themeVars, loaderVars>>

\* How the fetch of loadContent may end: a body in the format asked for, a
\* response that is not ok, a rejected fetch, a body that cannot be read or
\* parsed.
ContentFetchResults == { "ok", "notok", "throws", "badbody" }

\* Mutant: the catch block caches the empty object it returns.
loadContentCachesFailure(path, options, m, t, r, v) ==
    IF r = "ok"
    THEN [rejected |-> FALSE, value |-> ProcessFormat(options.format, v),
          cache |-> MapSet(m, path, [data |-> ProcessFormat(options.format, v),
                                     timestamp |-> t])]
    ELSE [rejected |-> FALSE, value |-> EmptyContentData,
          cache |-> MapSet(m, path, [data |-> EmptyContentData, timestamp |-> t])]

\* loadContent after its await of the fetch that ended as r, with the document
\* in version v: how the promise settles and what the module cache m becomes.
\* A success is cached under the time t the call captured; every failure is
\* caught and answered with {}, the cache being left alone.
loadContentSettled(path, options, m, t, r, v) ==
    IF r = "ok"
    THEN [rejected |-> FALSE, value |-> ProcessFormat(options.format, v),
          cache |-> MapSet(m, path, [data |-> ProcessFormat(options.format, v),
                                     timestamp |-> t])]
    ELSE [rejected |-> FALSE, value |-> EmptyContentData, cache |-> m]

\* The message loadContentData stores when loadContent rejects.
LoadFailed == <<"Failed to load content">>

\* The fetch of loadContent settles and loadContentData takes the outcome: a
\* value goes through loadContentDataDone, a rejection to the catch block
\* (setError) and the finally block (setLoading(false)).
ContentFetchDone(id, r, v) ==
    /\ id \in DOMAIN loads
    /\ loads[id].pc = "fetch"
    /\ LET res == loadContentSettled(contentProps.source.path, mergedOptions,
                                     contentCache, loads[id].now, r, v)
       IN /\ contentCache' = res.cache
          /\ IF res.rejected
             THEN /\ error' = LoadFailed
                  /\ loading' = FALSE
                  /\ loads' = [k \in (DOMAIN loads) \ {id} |-> loads[k]]
                  /\ UNCHANGED <<content, lastLoaded, currentContentStyle>>
             ELSE /\ loadContentDataDone(id, res.value)
                  /\ UNCHANGED error
    /\ contentOp' = NoContentOp
    /\ UNCHANGED contentInfo
    /\ UNCHANGED <<language, contentProps, nLoads>>
    /\ UNCHANGED <<themeVars, loaderVars>>

\* Mutant: the style is set without validation.
handleSetContentStyleUnchecked(styleId) ==
    /\ currentContentStyle' = styleId
    /\ contentOp' = [op |-> "setContentStyle", arg |-> styleId]
    /\ UNCHANGED contentInfo
    /\ UNCHANGED <<content, lastLoaded, loading, error, language, contentCache,
                   contentProps, loads, nLoads>>
    /\ UNCHANGED <<themeVars, loaderVars>>

\* setContentStyle(styleId)
handleSetContentStyle(styleId) ==
    /\ currentContentStyle' =
          IF validateContentStyle(styleId, availableContentStyles)
          THEN styleId ELSE currentContentStyle
    /\ contentOp' = [op |-> "setContentStyle", arg |-> styleId]
    /\ UNCHANGED contentInfo
    /\ UNCHANGED <<content, lastLoaded, loading, error, language, contentCache,
                   contentProps, loads, nLoads>>
    /\ UNCHANGED <<themeVars, loaderVars>>

\* resetContentStyleToDefault(): the style becomes
\* mergedOptions.defaultLanguage || 'default'.
handleResetContentStyleToDefault ==
    /\ currentContentStyle' = IF mergedOptions.defaultLanguage # ""
                              THEN mergedOptions.defaultLanguage
                              ELSE "default"
    /\ contentOp' = [op |-> "resetContentStyleToDefault", arg |-> ""]
    /\ UNCHANGED contentInfo
    /\ UNCHANGED <<content, lastLoaded, loading, error, language, contentCache,
                   contentProps, loads, nLoads>>
    /\ UNCHANGED <<themeVars, loaderVars>>

\* The keys of a document's languages section: version 1 of the server's
\* document has 'en', version 2 has 'en' and 'fr'; the other contents have no
\* languages section.
LanguagesOf(doc) ==
    IF doc.shape # "json" THEN {}
    ELSE IF doc.v = 1 THEN { "en" } ELSE { "en", "fr" }

\* languages = Object.keys(content.languages || {})
languages == LanguagesOf(content)

\* Mutant: only a detected language is accepted.
handleSetLanguageValidated(newLanguage) ==
    /\ language' = IF newLanguage \in languages THEN newLanguage ELSE language
    /\ contentOp' = [op |-> "setLanguage", arg |-> newLanguage]
    /\ UNCHANGED contentInfo
    /\ UNCHANGED <<content, lastLoaded, loading, error, currentContentStyle,
                   contentCache, contentProps, loads, nLoads>>
    /\ UNCHANGED <<themeVars, loaderVars>>

\* setLanguage(newLanguage)
handleSetLanguage(newLanguage) ==
    /\ language' = newLanguage
    /\ contentOp' = [op |-> "setLanguage", arg |-> newLanguage]
    /\ UNCHANGED contentInfo
    /\ UNCHANGED <<content, lastLoaded, loading, error, currentContentStyle,
                   contentCache, contentProps, loads, nLoads>>
    /\ UNCHANGED <<themeVars, loaderVars>>

\* The identities of the loadContentData calls.
LoadIds == 1..MaxLoads

\* The style ids and languages consumers pass.
StyleIdsPassed == { "marketing", "brand", "nope" }
LanguagesPassed == { "en", "fr" }

\* The clock's advances while a provider is watched: to within the default
\* cacheDuration and to its end.
ContentTickSteps == { 25 * Minute, 60 * Minute }

\* The provider's loads and its consumers' operations.
ContentStoreNext ==
    \/ reload
    \/ \E id \in LoadIds : ContentResolved(id)
    \/ \E id \in LoadIds, r \in ContentFetchResults, v \in Versions :
          ContentFetchDone(id, r, v)
    \/ \E styleId \in StyleIdsPassed : handleSetContentStyle(styleId)
    \/ handleResetContentStyleToDefault
    \/ \E l \in LanguagesPassed : handleSetLanguage(l)

ContentNext ==
    \/ ContentStoreNext
    \/ \E d \in ContentTickSteps : Tick(d)

-----------------------------------------------------------------------------
(* Content detection hook *)

\* The most top-level keys a document given to the detection hook has.
MaxContentKeys == 2

\* The letters a to z.
LowerCase ==
    { "a", "b", "c", "d", "e", "f", "g", "h", "i", "j", "k", "l", "m",
      "n", "o", "p", "q", "r", "s", "t", "u", "v", "w", "x", "y", "z" }

\* Key names and language names, as the characters they are made of.
En == <<"e", "n">>
Fr == <<"f", "r">>
UpperEN == <<"E", "N">>
E1 == <<"e", "1">>
Styles == <<"s", "t", "y", "l", "e", "s">>
Title == <<"t", "i", "t", "l", "e">>
EmptyString == << >>

\* key.length === 2 && /^[a-z]{2}$/.test(key)
IsLanguageCode(key) ==
    Len(key) = 2 /\ \A i \in DOMAIN key : key[i] \in LowerCase

\* The top-level keys of the documents the detection hook is exercised with.
DetectionKeys == { En, Fr, UpperEN, E1, Styles, Title }

\* What a top-level value may be: a non-null object, a non-empty string, null.
ValueKinds == { "object", "string", "null" }

\* The documents the detection hook is exercised with: up to MaxContentKeys
\* of DetectionKeys in any order, with values of any kind.
DetectionContents ==
    { [shape |-> "object", v |-> 0, keys |-> q, values |-> vals] :
        <<q, vals>> \in UNION { KeyOrders(ks) \X [ks -> ValueKinds] :
                                  ks \in { x \in SUBSET DetectionKeys :
                                             Cardinality(x) <= MaxContentKeys } } }

\* Object.keys(value) of a top-level value: the object of the model has the
\* one key 'formal', the string of the model the indices of its two characters.
KeysOfValue(kind) ==
    IF kind = "object" THEN << <<"f", "o", "r", "m", "a", "l">> >>
    ELSE IF kind = "string" THEN << <<"0">>, <<"1">> >>
    ELSE << >>

\* Mutant: the second test is not an else branch, an object-valued language
\* code is a section as well.
RECURSIVE classifyKeysTwice(_, _, _, _)
classifyKeysTwice(doc, keys, availableLanguages, contentSections) ==
    IF keys = << >>
    THEN [availableLanguages |-> availableLanguages, contentSections |-> contentSections]
    ELSE classifyKeysTwice(doc, Tail(keys),
            IF IsLanguageCode(Head(keys))
            THEN Append(availableLanguages, Head(keys)) ELSE availableLanguages,
            IF doc.values[Head(keys)] = "object"
            THEN Append(contentSections, Head(keys)) ELSE contentSections)

\* The forEach over the keys still to visit: a language code is pushed to
\* availableLanguages, any other key with a non-null object value to
\* contentSections.
RECURSIVE classifyKeys(_, _, _, _)
classifyKeys(doc, keys, availableLanguages, contentSections) ==
    IF keys = << >>
    THEN [availableLanguages |-> availableLanguages, contentSections |-> contentSections]
    ELSE IF IsLanguageCode(Head(keys))
    THEN classifyKeys(doc, Tail(keys), Append(availableLanguages, Head(keys)),
                      contentSections)
    ELSE IF doc.values[Head(keys)] = "object"
    THEN classifyKeys(doc, Tail(keys), availableLanguages,
                      Append(contentSections, Head(keys)))
    ELSE classifyKeys(doc, Tail(keys), availableLanguages, contentSections)

\* if (availableLanguages.length === 0 && language) availableLanguages.push(language)
languageFallback(found, lang) ==
    IF Len(found) = 0 /\ lang # EmptyString THEN Append(found, lang) ELSE found

\* getDynamicContentInfo() over the content doc and the language lang of the
\* store.
getDynamicContentInfo(doc, lang) ==
    LET c == classifyKeys(doc, doc.keys, << >>, << >>)
    IN [rendered |-> TRUE,
        availableLanguages |-> languageFallback(c.availableLanguages, lang),
        contentSections |-> c.contentSections,
        contentStyles |->
            IF Styles \in DOMAIN doc.values /\ doc.values[Styles] # "null"
            THEN KeysOfValue(doc.values[Styles]) ELSE << >>]

\* The languages consumers of the detection pass to setLanguage.
DetectionLanguages == { En, EmptyString, Styles, Title }

\* A provider given a document object as source, after its load: the
\* document is the content, the hook has not rendered yet.
ContentDetectionInit ==
    /\ \E doc \in DetectionContents :
          /\ content = doc
          /\ lastLoaded = doc
    /\ contentProps = [source |-> ObjectSource, options |-> << >>,
                       initialLanguage |-> En, initialContentStyle |-> "default",
                       customContentStyles |-> {}]
    /\ contentOp = NoContentOp
    /\ contentInfo = NoContentInfo
    /\ loading = FALSE
    /\ error = Null
    /\ language = En
    /\ currentContentStyle = "default"
    /\ contentCache = << >>
    /\ loads = << >>
    /\ nLoads = 1

\* A render of a component using useDynamicContentDetection.
useDynamicContentDetection ==
    /\ contentInfo' = getDynamicContentInfo(content, language)
    /\ UNCHANGED <<content, loading, error, language, currentContentStyle, contentCache,
                   contentProps, loads, nLoads, lastLoaded, contentOp>>
    /\ UNCHANGED <<themeVars, loaderVars>>

ContentDetectionNext ==
    \/ \E l \in DetectionLanguages : handleSetLanguage(l)
    \/ useDynamicContentDetection

-----------------------------------------------------------------------------
(* Specifications *)

\* A loader nobody calls.
LoaderIdle ==
    /\ cache = << >>
    /\ requestHistory = << >>
    /\ calls = << >>
    /\ nCalls = 0
    /\ writes = << >>
    /\ gateLog = << >>
    /\ now = 0
    /\ ticks = 0
    /\ env = [userAgent |-> NoNavigator, security |-> DefaultSecurity]

\* A theme provider nobody renders.
ThemeIdle ==
    /\ theme = FallbackTheme
    /\ isLoading = TRUE
    /\ isDarkMode = FALSE
    /\ currentPreset = Null
    /\ themeLoads = EmptyBag
    /\ nThemeLoads = 0
    /\ themeFile = FallbackTheme
    /\ themeData = FallbackTheme
    /\ themeOp = NoOp
    /\ themeInfo = NoInfo
    /\ SecurityIdle

\* A content provider nobody renders.
ContentIdle ==
    /\ contentProps = [source |-> ObjectSource, options |-> << >>,
                       initialLanguage |-> "en", initialContentStyle |-> "default",
                       customContentStyles |-> {}]
    /\ contentOp = NoContentOp
    /\ contentInfo = NoContentInfo
    /\ content = EmptyContentData
    /\ lastLoaded = EmptyContentData
    /\ loading = TRUE
    /\ error = Null
    /\ language = "en"
    /\ currentContentStyle = "default"
    /\ contentCache = << >>
    /\ loads = << >>
    /\ nLoads = 0

\* The theme store on its own.
InitTheme == ThemeInit /\ LoaderIdle /\ ContentIdle

SpecTheme ==
    /\ InitTheme
    /\ [][ThemeNext]_vars

\* The theme store driven by its own operations and by the switcher.
InitSwitcher == ThemeMounted(SwitcherDocs) /\ LoaderIdle /\ ContentIdle

SpecSwitcher ==
    /\ InitSwitcher
    /\ [][SwitcherNext]_vars

\* The validators called in any order.
InitSecurity == ThemeIdle /\ LoaderIdle /\ ContentIdle

SpecSecurity ==
    /\ InitSecurity
    /\ [][SecurityNext]_vars

\* The detection hook over a loaded document.
InitDetection == DetectionInit /\ LoaderIdle /\ ContentIdle

SpecDetection ==
    /\ InitDetection
    /\ [][DetectionNext]_vars

\* The loader called by a caller that awaits each call, with time passing.
InitLoader == LoaderInit /\ ThemeIdle /\ ContentIdle

SpecLoader ==
    /\ InitLoader
    /\ [][LoaderNextInTurn]_vars

\* The loader in its default configuration in a browser, called by callers
\* that do not wait for each other.
\* The SecurityManager of a loader on its own, with time passing.
SpecGate ==
    /\ InitLoader
    /\ [][GateNext]_vars

InitLoaderConcurrent ==
    /\ LoaderInit /\ env.security = DefaultSecurity /\ env.userAgent # NoNavigator
    /\ ThemeIdle /\ ContentIdle

SpecLoaderConcurrent ==
    /\ InitLoaderConcurrent
    /\ [][LoaderNextConcurrent]_vars

\* The content store on its own, with time passing.
InitContent == ContentInit /\ ThemeIdle /\ LoaderIdle

SpecContent ==
    /\ InitContent
    /\ [][ContentNext]_vars

\* The content detection hook over a loaded document.
InitContentDetection == ContentDetectionInit /\ ThemeIdle /\ LoaderIdle

SpecContentDetection ==
    /\ InitContentDetection
    /\ [][ContentDetectionNext]_vars

\* The content store on its own, within the cacheDuration of its first load.
SpecContentStore ==
    /\ InitContent
    /\ [][ContentStoreNext]_vars

-----------------------------------------------------------------------------
(* Claims about the theme store *)

\* The presets of the last two setPreset calls, when the second directly
\* followed the first and the theme has both.
LastTwoPresets ==
    /\ themeOp.op = "setPreset"
    /\ themeOp.a # Null
    /\ HasPreset(theme, themeOp.a)
    /\ HasPreset(theme, themeOp.b)

\* C1: after setPreset(A) then setPreset(B), both presets of the theme, every
\* colour and font key B overrides has B's value, and every key A overrides
\* and B does not keeps A's value.
C1_PresetOrder ==
    LastTwoPresets =>
        LET A == PresetOf(theme, themeOp.a)
            B == PresetOf(theme, themeOp.b)
        IN /\ \A k \in DOMAIN B.colors :
                 k \in DOMAIN theme.colors /\ theme.colors[k] = B.colors[k]
           /\ \A k \in DOMAIN B.fonts :
                 k \in DOMAIN theme.fonts /\ theme.fonts[k] = B.fonts[k]
           /\ \A k \in (DOMAIN A.colors) \ (DOMAIN B.colors) :
                 k \in DOMAIN theme.colors /\ theme.colors[k] = A.colors[k]
           /\ \A k \in (DOMAIN A.fonts) \ (DOMAIN B.fonts) :
                 k \in DOMAIN theme.fonts /\ theme.fonts[k] = A.fonts[k]

\* C1's case: two different presets applied in a row, the first overriding a
\* key the second leaves alone, whose value A gave differs from the base's.
C1_Witness ==
    /\ LastTwoPresets
    /\ themeOp.a # themeOp.b
    /\ DOMAIN PresetOf(theme, themeOp.b).colors # {}
    /\ \E k \in (DOMAIN PresetOf(theme, themeOp.a).colors)
                  \ (DOMAIN PresetOf(theme, themeOp.b).colors) :
          k \in DOMAIN theme.colors /\ k \in DOMAIN themeData.colors
          /\ theme.colors[k] # themeData.colors[k]

\* C2 as claimed: after a setPreset(P) that applied P, the resolved colours and
\* fonts are the loaded base document's overlaid with exactly P's keys.
C2_FromBase ==
    (themeOp.op = "setPreset" /\ HasPreset(theme, themeOp.b)) =>
        /\ theme.colors = Spread(themeData.colors, PresetOf(theme, themeOp.b).colors)
        /\ theme.fonts = Spread(themeData.fonts, PresetOf(theme, themeOp.b).fonts)

\* C2 as amended: a setPreset(P) that applies P leaves the colours and fonts
\* resolved just before the call, overlaid with exactly P's keys: P's keys get
\* P's values, every other key keeps the value it had, no key is lost or added.
C2_FromCurrent ==
    [][ (themeOp'.op = "setPreset" /\ HasPreset(theme, themeOp'.b)) =>
          LET P == PresetOf(theme, themeOp'.b)
          IN /\ DOMAIN theme'.colors = (DOMAIN theme.colors) \cup (DOMAIN P.colors)
             /\ DOMAIN theme'.fonts = (DOMAIN theme.fonts) \cup (DOMAIN P.fonts)
             /\ \A k \in DOMAIN theme'.colors :
                   theme'.colors[k] = IF k \in DOMAIN P.colors THEN P.colors[k]
                                      ELSE theme.colors[k]
             /\ \A k \in DOMAIN theme'.fonts :
                   theme'.fonts[k] = IF k \in DOMAIN P.fonts THEN P.fonts[k]
                                     ELSE theme.fonts[k]
             /\ theme'.presets = theme.presets ]_vars

\* C2's case: a preset was applied and the result differs from the base
\* document overlaid with that preset.
C2_Witness ==
    /\ themeOp.op = "setPreset"
    /\ themeOp.b \in DOMAIN theme.presets
    /\ theme.colors # Spread(themeData.colors, theme.presets[themeOp.b].colors)

\* C14 (as the specification states it): setPreset(name) with a name that is
\* not a key of the theme's presets changes nothing: the theme, currentPreset
\* and isDarkMode stay as they were.
C14_UnknownPresetIgnored ==
    [][ \A name \in CallerNames :
          (setPreset(name) /\ name \notin DOMAIN theme.presets)
              => UNCHANGED <<theme, currentPreset, isDarkMode>> ]_vars

-----------------------------------------------------------------------------
(* Claims about the smart content loader *)

\* The calls that have settled and not yet been taken by their caller.
Settled == { c \in DOMAIN calls : calls[c].pc = "done" }

\* The content endpoints of the loading strategies.
ContentEndpoints == { "public", "private", "essential", "additional" }

\* C3 (as the specification states it): no fetch is issued before the security
\* checks have run, and a call whose user agent is on the denylist issues no
\* fetch at all.
C3_NoFetchBeforeGate ==
    \A c \in DOMAIN calls :
        /\ calls[c].gate = "pending" => Len(calls[c].fetchLog) = 0
        /\ calls[c].gate # "pending" => calls[c].fetchesAtGate = 0
        /\ calls[c].gate = "denied" => Len(calls[c].fetchLog) = 0

\* C4 (as the specification states it): a call the security checks reject
\* settles as a rejection and produces no ContentResponse.
C4_GateRejects ==
    \A c \in Settled :
        calls[c].gate \in { "denied", "limited" }
            => calls[c].outcome = "rejected" /\ calls[c].response = NoResponse

\* C5: a call that passed the security checks always resolves with a
\* ContentResponse, and when its loading failed the data is the stale cache
\* entry if there is one younger than an hour, else the minimal payload if its
\* fetch succeeded, else the empty object.
C5_FallbackChain ==
    \A c \in Settled :
        calls[c].gate = "passed" =>
            /\ calls[c].outcome = "resolved"
            /\ calls[c].response # NoResponse
            /\ calls[c].failed =>
                  calls[c].response.data =
                      IF calls[c].staleAtError # NoData THEN calls[c].staleAtError
                      ELSE IF calls[c].minimal = "ok" THEN Content("minimal", FALSE, c)
                      ELSE EmptyContent

\* A call past the security checks failed and was answered from the cache
\* entry another call had written meanwhile.
C5_Witness ==
    \E c \in Settled :
        /\ calls[c].gate = "passed"
        /\ calls[c].failed
        /\ calls[c].staleAtError # NoData
        /\ calls[c].response.data = calls[c].staleAtError
        /\ calls[c].minimal = "none"

\* C6 (as the specification states it): when the lookup found the entry older
\* than its TTL but younger than an hour and the loading then fails, the
\* response carries that entry's payload and no minimal fetch is made.
C6_StaleServed ==
    \A c \in Settled :
        (/\ calls[c].failed
         /\ calls[c].lookup = "expired"
         /\ calls[c].lookupAge < 60 * Minute)
            => /\ calls[c].response.data = calls[c].lookupData
               /\ calls[c].minimal = "none"

\* The TTL table of the specification, in minutes.
TTLMinutes(networkQuality) ==
    CASE networkQuality = "excellent" -> 5
      [] networkQuality = "good" -> 10
      [] networkQuality = "poor" -> 30

\* C7: a lookup that finds an entry is a hit iff the entry's age does not
\* exceed the TTL of the quality assessed for the call (5, 10, 30 minutes).
C7_HitIffWithinTTL ==
    \A c \in DOMAIN calls :
        calls[c].lookup \in { "hit", "expired" } =>
            (calls[c].lookup = "hit"
                <=> calls[c].lookupAge <= TTLMinutes(calls[c].networkQuality) * Minute)

\* An entry 25 minutes old was a hit under poor quality.
C7_Witness ==
    \E c \in DOMAIN calls :
        /\ calls[c].networkQuality = "poor"
        /\ calls[c].lookupAge = 25 * Minute
        /\ calls[c].lookup = "hit"

\* C8 (as the specification states it): a call whose lookup hits returns the
\* cached payload tagged 'hit' and makes no network request.
C8_HitNoNetwork ==
    \A c \in Settled :
        calls[c].lookup = "hit" =>
            /\ calls[c].response.data = calls[c].lookupData
            /\ calls[c].response.cacheStatus = "hit"
            /\ Len(calls[c].fetchLog) = 0

\* C8 (amended): a call whose lookup hits returns the cached payload tagged
\* 'hit' and fetches no content: its only requests are the two probes of the
\* network assessment, issued before the lookup.
C8_HitOnlyProbes ==
    \A c \in Settled :
        calls[c].lookup = "hit" =>
            /\ calls[c].response.data = calls[c].lookupData
            /\ calls[c].response.cacheStatus = "hit"
            /\ calls[c].fetchLog = << "ping", "test-file" >>

\* A call was answered from the cache with the payload an earlier call wrote.
C8_Witness ==
    \E c \in Settled :
        /\ calls[c].lookup = "hit"
        /\ calls[c].response.cacheStatus = "hit"
        /\ calls[c].response.data.by # c
        /\ calls[c].response.data.kind \in { "public", "essential", "existing" }

\* C9: every call that missed and whose loading succeeded fetched its content
\* and wrote the entry, and the entry in the cache is the one written last.
C9_BothWriteLastWins ==
    /\ \A c \in Settled :
          (calls[c].lookup = "absent" /\ ~calls[c].failed) =>
              /\ calls[c].wrote
              /\ \E i \in DOMAIN calls[c].fetchLog :
                    calls[c].fetchLog[i] \in ContentEndpoints
    /\ \A key \in DOMAIN writes :
          /\ key \in DOMAIN cache
          /\ cache[key].data = writes[key][Len(writes[key])].data

\* Two calls missed before either had written, both wrote, in the order
\* opposite to the order they were made in, and the second write is the entry.
C9_Witness ==
    \E key \in DOMAIN writes :
        /\ Len(writes[key]) = 2
        /\ writes[key][1].seenWrites = 0
        /\ writes[key][2].seenWrites = 0
        /\ writes[key][1].data.by = 2
        /\ writes[key][2].data.by = 1
        /\ cache[key].data = writes[key][2].data

IsContentEndpoint(e) == e \in ContentEndpoints

\* The content fetches a call has issued so far, in order of issue.
ContentFetches(c) == SelectSeq(calls[c].fetchLog, IsContentEndpoint)

\* The calls whose lookup missed.
Missed == { c \in DOMAIN calls : calls[c].lookup \in { "absent", "expired" } }

\* C12 (as the specification states it): on a miss the strategy is a function
\* of the tier alone: the first content fetch is the public one under
\* excellent and good, the essential one under poor.
C12_TierOnly ==
    \A c \in Missed :
        /\ ContentFetches(c) # << >>
        /\ Head(ContentFetches(c)) =
              IF calls[c].networkQuality = "poor" THEN "essential" ELSE "public"

\* C12 (amended): on a miss a call that uses the existing provider fetches no
\* content; any other call follows the strategy of its tier: excellent issues
\* the public fetch and, with a token, the private one at the same time; good
\* issues the private fetch (with a token) only once the public one has
\* completed; poor issues the essential fetch first and the additional one
\* (with a token) afterwards, and a call that issued the additional fetch does
\* not fail: it resolves with the essential content.
C12_StrategyByTier ==
    \A c \in Missed :
        LET k == calls[c]
            F == ContentFetches(c)
        IN IF k.useExisting
           THEN F = << >> /\ k.pc = "done" /\ ~k.failed
           ELSE CASE k.networkQuality = "excellent" ->
                       F = IF k.authToken THEN << "public", "private" >>
                           ELSE << "public" >>
                  [] k.networkQuality = "good" ->
                       /\ F \in { << "public" >>, << "public", "private" >> }
                       /\ k.pc = "balanced-public" => F = << "public" >>
                       /\ F = << "public", "private" >> =>
                             /\ k.authToken
                             /\ k.pc \in { "balanced-private", "minimal", "done" }
                       /\ (k.pc = "done" /\ ~k.failed /\ k.authToken) =>
                             F = << "public", "private" >>
                  [] k.networkQuality = "poor" ->
                       /\ F \in { << "essential" >>, << "essential", "public" >>,
                                  << "essential", "additional" >>,
                                  << "essential", "public", "additional" >> }
                       /\ k.pc \in { "essential", "essential-public" } =>
                             F[Len(F)] # "additional"
                       /\ F[Len(F)] = "additional" =>
                             /\ k.authToken
                             /\ ~k.failed
                             /\ k.pc \in { "additional", "done" }
                             /\ k.pc = "done" =>
                                   /\ k.outcome = "resolved"
                                   /\ k.response.cacheStatus = "miss"
                                   /\ k.response.data.kind = k.essentialKind
                                   /\ k.response.data.by = c

\* A call under poor quality whose additional fetch failed resolved with the
\* essential content.
C12_Witness ==
    \E c \in Settled :
        /\ calls[c].networkQuality = "poor"
        /\ ~calls[c].useExisting
        /\ ContentFetches(c) = << "essential", "additional" >>
        /\ calls[c].response.data = Content("essential", FALSE, c)
        /\ ~calls[c].failed

\* C11: with rate limiting enabled, no request is rejected with 'Rate limit
\* exceeded', however many fall within one 60-second window.
C11_NeverRateLimited ==
    \A i \in DOMAIN gateLog : gateLog[i].gate # "limited"

\* Eleven requests were checked within one window with rate limiting enabled,
\* and the eleventh passed.
C11_Witness ==
    /\ env.security.rateLimiting
    /\ Len(gateLog) >= 11
    /\ \A i \in 1..11 : gateLog[11].at - gateLog[i].at < RateWindow
    /\ gateLog[11].gate = "passed"
    /\ Cardinality(DOMAIN requestHistory) >= 11

-----------------------------------------------------------------------------
(* Claims about the content store *)

\* The content state other than the current content style.
contentButStyle == <<content, loading, error, language, contentCache, contentProps,
                     loads, nLoads, lastLoaded>>

\* C13: setContentStyle(id) with an id in neither the built-in nor the custom
\* style list leaves the current content style (and the rest of the content
\* state) unchanged, from any state.
C13_InvalidStyleIgnored ==
    [][ \A styleId \in StyleIdsPassed :
          (handleSetContentStyle(styleId) /\ styleId \notin availableContentStyles)
              => /\ currentContentStyle' = currentContentStyle
                 /\ UNCHANGED contentButStyle ]_vars

\* setContentStyle was called with an id that the provider without custom
\* styles does not know, while the current style was another one.
C13_Witness ==
    /\ contentOp = [op |-> "setContentStyle", arg |-> "brand"]
    /\ "brand" \notin availableContentStyles
    /\ currentContentStyle = "marketing"

\* The content state other than the language.
contentButLanguage == <<content, loading, error, currentContentStyle, contentCache,
                        contentProps, loads, nLoads, lastLoaded>>

\* C15: setLanguage(code) sets the language to code, whether or not code is
\* among the languages detected in the loaded content, and changes nothing
\* else in the content state.
C15_SetLanguageUnconditional ==
    [][ \A l \in LanguagesPassed :
          handleSetLanguage(l) => language' = l /\ UNCHANGED contentButLanguage ]_vars

\* setLanguage was called with a code the loaded document does not have, and
\* the language is that code.
C15_Witness ==
    /\ contentOp = [op |-> "setLanguage", arg |-> "fr"]
    /\ content.shape = "json"
    /\ "fr" \notin languages
    /\ language = "fr"

\* C10 (as the specification states it): two reload() calls in flight at once
\* have each issued their own fetch of the source, and once no call is in
\* flight the content is what the load that settled last returned.
C10_ReloadsFetch ==
    /\ \A i, j \in DOMAIN loads :
          (/\ i # j
           /\ loads[i].by = "reload"
           /\ loads[j].by = "reload"
           /\ contentProps.source.isString)
              => loads[i].pc = "fetch" /\ loads[j].pc = "fetch"
    /\ DOMAIN loads = {} => content = lastLoaded

-----------------------------------------------------------------------------
(* Dark/light toggle without a counterpart preset *)

\* The pieces a name is made of.
Pieces(name) == { name[i] : i \in DOMAIN name }

\* The first name of list, in list order, that contains the suffix (light) or
\* does not contain it (~light); Null when list has none.
FirstOfKind(list, light) ==
    LET hits == { i \in DOMAIN list : (LightSuffix \in Pieces(list[i])) = light }
    IN IF hits = {} THEN Null
       ELSE list[CHOOSE i \in hits : \A j \in hits : i <= j]

\* The counterpart the store's toggleDarkMode looks for.
storeCounterpart ==
    IF ~isDarkMode THEN Append(currentBasePreset, LightSuffix) ELSE currentBasePreset

\* C16 as claimed: a toggleDarkMode() of the store that finds no counterpart
\* preset, while the theme has a preset of the wanted kind, makes the first
\* such preset in key order the current preset.
C16_StoreFallsBack ==
    [][ (toggleDarkMode /\ ~HasPreset(theme, storeCounterpart)
            /\ FirstOfKind(theme.keys, ~isDarkMode) # Null)
          => currentPreset' = FirstOfKind(theme.keys, ~isDarkMode) ]_vars

\* C16 as amended: the store's toggleDarkMode() without a counterpart only
\* flips isDarkMode; the switcher's handleDarkModeToggle() without a
\* counterpart applies the first preset in key order containing the suffix
\* (current name without suffix) or not containing it (current name with
\* suffix), which becomes currentPreset, changes nothing when there is no
\* such preset, and leaves isDarkMode alone either way.
C16_SwitcherFallsBack ==
    [][ /\ (toggleDarkMode /\ ~HasPreset(theme, storeCounterpart))
            => /\ UNCHANGED <<theme, currentPreset>>
               /\ isDarkMode' = ~isDarkMode
        /\ (handleDarkModeToggle /\ ~ListIncludes(theme.keys, switcherCounterpart))
            => LET light == currentPreset = Null \/ LightSuffix \notin Pieces(currentPreset)
                   first == FirstOfKind(theme.keys, light)
               IN /\ isDarkMode' = isDarkMode
                  /\ IF first = Null THEN UNCHANGED <<theme, currentPreset>>
                     ELSE /\ currentPreset' = first
                          /\ theme' = applyPreset(theme, first) ]_vars

\* C16's case: the switcher's toggle found no counterpart and fell back to a
\* preset of the wanted kind that is not the first key of the document, while
\* a later key is of that kind too.
C16_Witness ==
    /\ themeOp.op = "switcherToggle"
    /\ ~ListIncludes(theme.keys, themeOp.b)
    /\ currentPreset # themeOp.a
    /\ \E i, j \in DOMAIN theme.keys :
          /\ 1 < i /\ i < j
          /\ theme.keys[i] = currentPreset
          /\ IncludesLight(theme.keys[j]) = IncludesLight(currentPreset)
          /\ IncludesLight(theme.keys[1]) # IncludesLight(currentPreset)

-----------------------------------------------------------------------------
(* loadTheme on failure *)

\* C17: loadTheme never rejects, and when the fetch fails, the status is not
\* ok or the body is not JSON it resolves to the built-in fallback document,
\* whose colours are exactly primary, background and foreground; the store
\* then holds that document as loaded.
C17_LoadThemeFallback ==
    [][ themeOp'.op = "load" =>
          /\ \A r \in ThemeFetchResults :
                /\ ~loadTheme(themeFile, r).rejected
                /\ r # "ok" =>
                      /\ DOMAIN loadTheme(themeFile, r).value.colors
                             = {"primary", "background", "foreground"}
                      /\ \A k \in {"primary", "background", "foreground"} :
                             loadTheme(themeFile, r).value.colors[k] = "builtin"
          /\ \A ip \in BagToSet(themeLoads),
                 res \in { loadTheme(themeFile, r) : r \in ThemeFetchResults \ {"ok"} } :
                ThemeLoadDone(ip, res, isDarkMode') =>
                    /\ themeData' = res.value
                    /\ DOMAIN theme'.colors = {"primary", "background", "foreground"}
                    /\ ~isLoading' ]_vars

\* C17's case: a load of a document with other colours ended with the
\* fallback document in the store.
C17_Witness ==
    /\ themeOp.op = "load"
    /\ ~isLoading
    /\ DOMAIN themeFile.colors # {"primary", "background", "foreground"}
    /\ themeData # themeFile
    /\ DOMAIN themeData.colors = {"primary", "background", "foreground"}
    /\ theme = themeData

-----------------------------------------------------------------------------
(* content.loadContent on failure *)

\* C18: loadContent never rejects; when the fetch fails, the response is not
\* ok or the body cannot be parsed it resolves to {}, which becomes the
\* store's content, and the module cache is left exactly as it was.
C18_FailureNotCached ==
    [][ \A id \in LoadIds, r \in ContentFetchResults, v \in Versions :
          ContentFetchDone(id, r, v) =>
              /\ error' = Null
              /\ r # "ok" =>
                    /\ content' = EmptyContentData
                    /\ contentCache' = contentCache ]_vars

\* C18's case: a fetch failed while the cache held a document from an
\* earlier fetch: the content is {} and the entry is still that document.
C18_Witness ==
    /\ contentProps.source.isString
    /\ contentOp = NoContentOp
    /\ nLoads >= 2
    /\ content = EmptyContentData
    /\ error = Null
    /\ contentProps.source.path \in DOMAIN contentCache
    /\ contentCache[contentProps.source.path].data # EmptyContentData

-----------------------------------------------------------------------------
(* Theme detection *)

\* name with a trailing '-light' removed.
StripSuffix(name) ==
    IF name # << >> /\ name[Len(name)] = LightSuffix
    THEN SubSeq(name, 1, Len(name) - 1)
    ELSE name

\* The first occurrences of the members of list, in list order.
RECURSIVE FirstSeen(_)
FirstSeen(list) ==
    IF list = << >> THEN << >>
    ELSE LET init == FirstSeen(SubSeq(list, 1, Len(list) - 1))
             last == list[Len(list)]
         IN IF \E i \in DOMAIN init : init[i] = last THEN init
            ELSE Append(init, last)

\* C19: baseThemes holds, for each preset key in key order, the key with the
\* '-light' suffix stripped, without duplicates and in first-seen order.
C19_BaseThemes ==
    themeInfo.rendered =>
        themeInfo.baseThemes
            = FirstSeen([i \in DOMAIN theme.keys |-> StripSuffix(theme.keys[i])])

\* The keys of presets whose document entry has colors, in key order.
ColoredKeys == SelectSeq(theme.keys, LAMBDA n : "colors" \in DOMAIN theme.presets[n])

\* C20 as claimed: colorVariants has one entry per preset key.
C20_VariantPerPreset ==
    themeInfo.rendered => Len(themeInfo.colorVariants) = Len(theme.keys)

\* C20 as amended: colorVariants has exactly one entry per preset key whose
\* preset has a colors object, in key order, named by the key (suffixed or
\* not) and carrying that preset's colors unmodified; presets without colors
\* get no entry, so there are as many entries as presets exactly when every
\* preset has colors.
C20_VariantPerColoredPreset ==
    themeInfo.rendered =>
        /\ Len(themeInfo.colorVariants) = Len(ColoredKeys)
        /\ \A i \in DOMAIN ColoredKeys :
              /\ themeInfo.colorVariants[i].name = ColoredKeys[i]
              /\ themeInfo.colorVariants[i].colors = theme.presets[ColoredKeys[i]].colors
        /\ (Len(themeInfo.colorVariants) = Len(theme.keys))
              <=> (\A n \in DOMAIN theme.presets : "colors" \in DOMAIN theme.presets[n])

\* C20's case: a document whose first preset has no colors, followed by a
\* suffixed and an unsuffixed preset with colors, both of which got an entry.
C20_Witness ==
    /\ themeInfo.rendered
    /\ Len(theme.keys) = 3
    /\ "colors" \notin DOMAIN theme.presets[theme.keys[1]]
    /\ Len(themeInfo.colorVariants) = 2
    /\ \E i, j \in DOMAIN themeInfo.colorVariants :
          /\ IncludesLight(themeInfo.colorVariants[i].name)
          /\ ~IncludesLight(themeInfo.colorVariants[j].name)

-----------------------------------------------------------------------------
(* Content detection *)

\* The members of a list.
Members(list) == { list[i] : i \in DOMAIN list }

\* x occurs in list exactly once.
OccursOnce(list, x) == Cardinality({ i \in DOMAIN list : list[i] = x }) = 1

\* Two lowercase letters.
TwoLetters(key) == Len(key) = 2 /\ key[1] \in LowerCase /\ key[2] \in LowerCase

\* C21 as claimed: of the names in the lists, exactly the two-letter keys are
\* in availableLanguages and exactly the other object-valued keys in
\* contentSections; a key that is not two letters is never in
\* availableLanguages, 'styles' in particular.
C21_KeysClassified ==
    contentInfo.rendered =>
        /\ \A k \in DOMAIN content.values :
              /\ (k \in Members(contentInfo.availableLanguages)) <=> TwoLetters(k)
              /\ (k \in Members(contentInfo.contentSections))
                    <=> (~TwoLetters(k) /\ content.values[k] = "object")
        /\ Styles \notin Members(contentInfo.availableLanguages)

\* The render of the hook that produced contentInfo' from content and language.
Rendered == contentInfo'.rendered /\ contentInfo' # contentInfo

\* C21 as amended: each render classifies every top-level key at most once: a
\* key matching two lowercase letters is in availableLanguages, once, and in
\* no other list; any other key is in contentSections, once, iff its value is
\* a non-null object; a key that is neither appears in contentSections never
\* and in availableLanguages only as the current language, which is the one
\* entry when no key is a language code: so 'styles' is in availableLanguages
\* exactly when no key is a language code and the current language is 'styles'.
C21_KeysClassifiedOrFallback ==
    [][ Rendered =>
          LET langs == contentInfo'.availableLanguages
              secs == contentInfo'.contentSections
              none == \A k \in DOMAIN content.values : ~TwoLetters(k)
          IN /\ \A k \in DOMAIN content.values :
                   /\ TwoLetters(k) =>
                         OccursOnce(langs, k) /\ k \notin Members(secs)
                   /\ (~TwoLetters(k) /\ content.values[k] = "object") =>
                         OccursOnce(secs, k)
                   /\ (~TwoLetters(k) /\ content.values[k] # "object") =>
                         k \notin Members(secs)
                   /\ (~TwoLetters(k) /\ k \in Members(langs)) =>
                         none /\ k = language /\ langs = <<language>>
             /\ Members(secs) \subseteq DOMAIN content.values
             /\ (Styles \in Members(langs)) <=> (none /\ language = Styles) ]_vars

\* C21's case: a document with a language key and a string-valued key that
\* is not two letters: the first is the only language, the second is in
\* neither list.
C21_Witness ==
    /\ contentInfo.rendered
    /\ contentInfo.availableLanguages = <<En>>
    /\ contentInfo.contentSections = << >>
    /\ Title \in DOMAIN content.values
    /\ content.values[Title] = "string"
    /\ En \in DOMAIN content.values

\* C22: whenever the hook has rendered, availableLanguages is not empty.
C22_LanguagesNonEmpty ==
    [][ Rendered => Len(contentInfo'.availableLanguages) > 0 ]_vars

-----------------------------------------------------------------------------
(* Reset of the content style *)

\* C23: resetContentStyleToDefault() makes 'default' the current content
\* style, whatever the style was and whatever the options are.
C23_ResetToDefault ==
    [][ handleResetContentStyleToDefault => currentContentStyle' = "default" ]_vars

-----------------------------------------------------------------------------
(* Validators *)

\* value contains a piece a blocked pattern matches.
ContainsBlocked(value) ==
    \E j \in DOMAIN value, p \in DOMAIN BLOCKED_PATTERNS : value[j] \in BLOCKED_PATTERNS[p]

\* value is in a format the validator fn allows.
InAllowedFormat(fn, value) ==
    IF fn = "validateColor" THEN ALLOWED_COLOR_FORMATS(value)
    ELSE IF fn = "validateFont" THEN ALLOWED_FONT_VALUES(value)
    ELSE ALLOWED_NUMERIC_VALUES(value)

\* C24: every validator call, whatever calls preceded it, rejects an input
\* with a blocked pattern and accepts an input in an allowed format, and two
\* calls of one validator with one input give the same isValid and error.
C24_ValidatorsStateless ==
    \A i \in DOMAIN validations :
        /\ ContainsBlocked(validations[i].input) => ~validations[i].result.isValid
        /\ InAllowedFormat(validations[i].fn, validations[i].input)
              => validations[i].result.isValid
        /\ \A j \in DOMAIN validations :
              (validations[j].fn = validations[i].fn
                  /\ validations[j].input = validations[i].input)
                => validations[j].result = validations[i].result

-----------------------------------------------------------------------------
(* The current content style is an available style *)

\* C25: once the first load has completed, the current content style is the
\* id of an available (built-in or custom) style, whatever setContentStyle,
\* resetContentStyleToDefault, setLanguage and reload calls were made.
C25_StyleAvailable ==
    (1 \notin DOMAIN loads) => currentContentStyle \in availableContentStyles

-----------------------------------------------------------------------------
(* currentPreset names a preset of the loaded theme *)

\* C26: once a theme load has completed, currentPreset is null or a key of
\* the loaded theme's presets.
C26_CurrentPresetIsKey ==
    ~isLoading => (currentPreset = Null \/ currentPreset \in DOMAIN theme.presets)

-----------------------------------------------------------------------------
(* The resolved theme reflects the current preset *)

\* C27: whenever no theme load is in flight and currentPreset names a preset
\* P of the loaded theme, every colour and font key P overrides has P's value
\* in the resolved theme.
C27_ThemeReflectsPreset ==
    (themeLoads = EmptyBag /\ ~isLoading /\ currentPreset # Null
        /\ currentPreset \in DOMAIN theme.presets) =>
        LET P == theme.presets[currentPreset]
        IN /\ \A k \in DOMAIN P.colors :
                 k \in DOMAIN theme.colors /\ theme.colors[k] = P.colors[k]
           /\ \A k \in DOMAIN P.fonts :
                 k \in DOMAIN theme.fonts /\ theme.fonts[k] = P.fonts[k]

-----------------------------------------------------------------------------
(* reload() and the consumer's choices *)

\* C28: neither the call of reload() nor the completion of the load it
\* started changes the language or a current content style that is one of
\* the available styles.
C28_ReloadKeepsChoices ==
    [][ /\ (nLoads' # nLoads) =>
              UNCHANGED <<language, currentContentStyle>>
        /\ \A id \in DOMAIN loads :
              (loads[id].by = "reload" /\ id \notin DOMAIN loads'
                  /\ currentContentStyle \in availableContentStyles) =>
                  UNCHANGED <<language, currentContentStyle>> ]_vars

-----------------------------------------------------------------------------
(* Private content and calls without a token *)

\* C29: the data of a response to a call made without an authToken holds no
\* content obtained with a token from the private or additional endpoint.
C29_NoPrivateWithoutToken ==
    \A c \in Settled : ~calls[c].authToken => ~calls[c].response.data.priv

-----------------------------------------------------------------------------
(* Two toggles in a row *)

\* Both b and b-light are presets of the theme and currentPreset is one of
\* them.
HasBothVariants ==
    /\ currentPreset # Null
    /\ basePresetOf(currentPreset) \in DOMAIN theme.presets
    /\ Append(basePresetOf(currentPreset), LightSuffix) \in DOMAIN theme.presets
    /\ currentPreset \in { basePresetOf(currentPreset),
                           Append(basePresetOf(currentPreset), LightSuffix) }

\* C30: when both b and b-light are presets and currentPreset is one of them,
\* a toggleDarkMode() leads to a state from which the next toggleDarkMode()
\* restores currentPreset, isDarkMode and the resolved colours and fonts.
C30_DoubleToggleRestores ==
    [][ (toggleDarkMode /\ HasBothVariants) =>
          LET back == toggled(theme', currentPreset', isDarkMode')
          IN /\ back.currentPreset = currentPreset
             /\ back.isDarkMode = isDarkMode
             /\ back.theme.colors = theme.colors
             /\ back.theme.fonts = theme.fonts ]_vars

====
